---- MODULE Spec2Model ----
(***************************************************************************)
(* Model of natgeo-wallpapers (src/src/lib.rs): desktop-environment        *)
(* detection, topology probes, the assignment planner build_assignments    *)
(* and the run of set_wallpapers_with_options with its apply loops.        *)
(*                                                                         *)
(* A photo path is modelled by a natural number; the order of the numbers  *)
(* is the order of the paths (PathBuf's Ord), so a larger number is a      *)
(* later (newer, date-stamped) path.  A text is a sequence of one-         *)
(* character strings.                                                      *)
(***************************************************************************)
EXTENDS Integers, Sequences, FiniteSets, TLC

\* ------------------------------------------------------------------ bounds
\* number of distinct photo paths on disk
MaxPhotos == 2
\* largest count a topology probe reports in a run of set_wallpapers_with_options
MaxCount == 2
\* longest pool and largest counts handed to build_assignments on its own
MaxPool == 3
MaxPlan == 3
\* longest stdout text of a count query
MaxText == 3
\* longest message handed to write_log, and the number of write_log calls
MaxMsg == 1
MaxWrites == 2
\* blocks of equal characters a title is made of
MaxBlocks == 2
\* longest --time argument
MaxArg == 5
\* calls of download_natgeo_photo_of_the_day on one directory
MaxDownloads == 2
\* photos of a collection
MaxCollection == 2

\* install and uninstall commands run one after another
MaxOps == 2

VARIABLES
    pc,              \* position inside set_wallpapers_with_options
    mode,            \* argument mode
    random,          \* argument random
    photos,          \* let mut photos
    de,              \* let de
    monitor_count,   \* let monitor_count
    vd_count,        \* let vd_count
    effective_mode,  \* let effective_mode
    assignments,     \* let assignments
    planned,         \* build_assignments has been called
    i,               \* 0-based position of the apply loop in assignments
    calls,           \* the set_wallpaper_* invocations issued so far, in order
    queries,         \* the external count queries issued so far, in order
    log,             \* the write_log invocations so far, in order
    result,          \* the value returned by set_wallpapers_with_options
    found,           \* what find_photos_in_path returned
    reports,         \* the per-target indicators printed by the applier, in order
    file,            \* the log file write_log appends to, called on its own
    wallpapers,      \* the image each desktop of the shell shows, by monitor index
    dir,             \* the files of the directory an operation works in
    net,             \* the HTTP requests sent so far, in order
    sys,             \* the commands run so far, in order
    stats,           \* the counters of download_collection
    args,            \* arguments of a function called on its own
    ret              \* its return value

vars == <<pc, mode, random, photos, de, monitor_count, vd_count, effective_mode,
          assignments, planned, i, calls, queries, log, result, found, reports,
          file, wallpapers, dir, net, sys, stats, args, ret>>

runVars == <<pc, mode, random, photos, de, monitor_count, vd_count, effective_mode,
             assignments, planned, i, calls, queries, log, result, found, reports,
             file, wallpapers, dir, net, sys, stats>>

\* ------------------------------------------------------------------ types
WallpaperMode == {"Monitors", "VirtualDesktops", "Both"}

DesktopEnvironment ==
    {"KdePlasma6", "KdePlasma5", "PlasmaFallback", "Gnome", "Feh", "Unknown"}

Photos == 1..MaxPhotos

None == "none"

\* impl Display for WallpaperMode
ModeToString(m) ==
    CASE m = "Monitors" -> "monitors"
      [] m = "VirtualDesktops" -> "virtual-desktops"
      [] m = "Both" -> "both"

\* PathBuf::display of the photo path numbered p
PathDisplay(p) == "photo" \o ToString(p)

\* ------------------------------------------------------- build_assignments
WallpaperAssignment(location, photo_path, is_newest) ==
    [location |-> location, photo_path |-> photo_path, is_newest |-> is_newest]

\* photos[i % photos.len()], 0-based i; the caller guarantees a non-empty pool
PhotoAt(pool, idx) == pool[(idx % Len(pool)) + 1]

\* faulty variant: the photo index starts at 1, so the newest photo is not on monitor 1
RECURSIVE MonitorsLoopOffByOne(_, _, _, _)
MonitorsLoopOffByOne(k, pool, monitor_cnt, acc) ==
    IF k >= monitor_cnt THEN acc
    ELSE MonitorsLoopOffByOne(k + 1, pool, monitor_cnt,
            Append(acc, WallpaperAssignment("Monitor " \o ToString(k + 1),
                                            PhotoAt(pool, k + 1), k = 0)))

\* for i in 0..monitor_count { ... }
RECURSIVE MonitorsLoop(_, _, _, _)
MonitorsLoop(k, pool, monitor_cnt, acc) ==
    IF k >= monitor_cnt THEN acc
    ELSE MonitorsLoop(k + 1, pool, monitor_cnt,
            Append(acc, WallpaperAssignment("Monitor " \o ToString(k + 1),
                                            PhotoAt(pool, k), k = 0)))

\* faulty variant: the pool is not reused cyclically, the last photo is repeated
RECURSIVE VirtualDesktopsLoopClamped(_, _, _, _)
VirtualDesktopsLoopClamped(k, pool, vd_cnt, acc) ==
    IF k >= vd_cnt THEN acc
    ELSE VirtualDesktopsLoopClamped(k + 1, pool, vd_cnt,
            Append(acc, WallpaperAssignment("Virtual Desktop " \o ToString(k + 1),
                        pool[IF k < Len(pool) THEN k + 1 ELSE Len(pool)], k = 0)))

\* for i in 0..vd_count { ... }
RECURSIVE VirtualDesktopsLoop(_, _, _, _)
VirtualDesktopsLoop(k, pool, vd_cnt, acc) ==
    IF k >= vd_cnt THEN acc
    ELSE VirtualDesktopsLoop(k + 1, pool, vd_cnt,
            Append(acc, WallpaperAssignment("Virtual Desktop " \o ToString(k + 1),
                                            PhotoAt(pool, k), k = 0)))

\* faulty variant: the photo index is the monitor index, not the running counter
RECURSIVE BothLoopPerMonitor(_, _, _, _, _, _)
BothLoopPerMonitor(vd, mon, pool, monitor_cnt, vd_cnt, acc) ==
    IF vd >= vd_cnt THEN acc
    ELSE IF mon >= monitor_cnt
         THEN BothLoopPerMonitor(vd + 1, 0, pool, monitor_cnt, vd_cnt, acc)
         ELSE BothLoopPerMonitor(vd, mon + 1, pool, monitor_cnt, vd_cnt,
                Append(acc, WallpaperAssignment(
                    "Monitor " \o ToString(mon + 1) \o ", VD " \o ToString(vd + 1),
                    PhotoAt(pool, mon), Len(acc) = 0)))

\* faulty variant: a desktop without monitor is planned as if it had one
RECURSIVE BothLoopSomeMonitor(_, _, _, _, _, _)
BothLoopSomeMonitor(vd, mon, pool, monitor_cnt, vd_cnt, acc) ==
    IF vd >= vd_cnt THEN acc
    ELSE IF mon >= (IF monitor_cnt = 0 THEN 1 ELSE monitor_cnt)
         THEN BothLoopSomeMonitor(vd + 1, 0, pool, monitor_cnt, vd_cnt, acc)
         ELSE BothLoopSomeMonitor(vd, mon + 1, pool, monitor_cnt, vd_cnt,
                Append(acc, WallpaperAssignment(
                    "Monitor " \o ToString(mon + 1) \o ", VD " \o ToString(vd + 1),
                    PhotoAt(pool, Len(acc)), Len(acc) = 0)))

\* for vd in 0..vd_count { for mon in 0..monitor_count { ...; idx += 1 } }
\* the running counter idx is Len(acc)
RECURSIVE BothLoop(_, _, _, _, _, _)
BothLoop(vd, mon, pool, monitor_cnt, vd_cnt, acc) ==
    IF vd >= vd_cnt THEN acc
    ELSE IF mon >= monitor_cnt
         THEN BothLoop(vd + 1, 0, pool, monitor_cnt, vd_cnt, acc)
         ELSE BothLoop(vd, mon + 1, pool, monitor_cnt, vd_cnt,
                Append(acc, WallpaperAssignment(
                    "Monitor " \o ToString(mon + 1) \o ", VD " \o ToString(vd + 1),
                    PhotoAt(pool, Len(acc)), Len(acc) = 0)))

\* the number of times the loop body of the mode runs
Iterations(m, monitor_cnt, vd_cnt) ==
    CASE m = "Monitors" -> monitor_cnt
      [] m = "VirtualDesktops" -> vd_cnt
      [] m = "Both" -> monitor_cnt * vd_cnt

\* i % photos.len() panics (remainder with a divisor of zero) when the loop
\* body runs on an empty pool
BuildPanics(m, pool, monitor_cnt, vd_cnt) ==
    Len(pool) = 0 /\ Iterations(m, monitor_cnt, vd_cnt) > 0

build_assignments(m, pool, monitor_cnt, vd_cnt) ==
    CASE m = "Monitors" -> MonitorsLoop(0, pool, monitor_cnt, <<>>)
      [] m = "VirtualDesktops" -> VirtualDesktopsLoop(0, pool, vd_cnt, <<>>)
      [] m = "Both" -> BothLoop(0, 0, pool, monitor_cnt, vd_cnt, <<>>)

\* -------------------------------------------- detect_desktop_environment
Commands == {"qdbus6", "qdbus", "plasma-apply-wallpaperimage", "gsettings", "feh"}

\* what the host answers: the commands `which` finds, the processes pgrep -x finds
Hosts == [commands : SUBSET Commands, processes : SUBSET {"plasmashell"}]

command_exists(host, cmd) == cmd \in host.commands

process_running(host, name) == name \in host.processes

\* faulty variant: a Plasma kind is chosen from the executable alone
detect_desktop_environment_no_pgrep(host) ==
    IF command_exists(host, "qdbus6") THEN "KdePlasma6"
    ELSE IF command_exists(host, "qdbus") THEN "KdePlasma5"
    ELSE IF command_exists(host, "plasma-apply-wallpaperimage") THEN "PlasmaFallback"
    ELSE IF command_exists(host, "gsettings") THEN "Gnome"
    ELSE IF command_exists(host, "feh") THEN "Feh"
    ELSE "Unknown"

detect_desktop_environment(host) ==
    LET plasmashell_running == process_running(host, "plasmashell") IN
    IF command_exists(host, "qdbus6") /\ plasmashell_running THEN "KdePlasma6"
    ELSE IF command_exists(host, "qdbus") /\ plasmashell_running THEN "KdePlasma5"
    ELSE IF command_exists(host, "plasma-apply-wallpaperimage") THEN "PlasmaFallback"
    ELSE IF command_exists(host, "gsettings") THEN "Gnome"
    ELSE IF command_exists(host, "feh") THEN "Feh"
    ELSE "Unknown"

\* ------------------------------------------------------ text of a count query
Chars == {"0", "1", "2", "3", "+", "-", " ", "\n", "a"}

Digits == {"0", "1", "2", "3"}

DigitValue(c) == CASE c = "0" -> 0 [] c = "1" -> 1 [] c = "2" -> 2 [] c = "3" -> 3

Whitespace == {" ", "\n"}

Texts == UNION {[1..n -> Chars] : n \in 0..MaxText}

\* str::trim: leading and trailing whitespace removed
RECURSIVE TrimStart(_)
TrimStart(s) ==
    IF s = <<>> THEN s
    ELSE IF Head(s) \in Whitespace THEN TrimStart(Tail(s)) ELSE s

RECURSIVE TrimEnd(_)
TrimEnd(s) ==
    IF s = <<>> THEN s
    ELSE IF s[Len(s)] \in Whitespace THEN TrimEnd(SubSeq(s, 1, Len(s) - 1)) ELSE s

Trim(s) == TrimEnd(TrimStart(s))

Ok(v) == [ok |-> TRUE, value |-> v]

Err(e) == [ok |-> FALSE, error |-> e]

\* the digit loop of usize::from_str: every character must be a digit.  The
\* texts of the model have at most MaxText digits, far below usize::MAX, so
\* the PosOverflow error (which also yields Err) is not reachable here.
RECURSIVE ParseDigits(_, _)
ParseDigits(s, acc) ==
    IF s = <<>> THEN Ok(acc)
    ELSE IF Head(s) \in Digits
         THEN ParseDigits(Tail(s), acc * 10 + DigitValue(Head(s)))
         ELSE Err("InvalidDigit")

\* <usize as FromStr>::from_str: an optional leading '+', then one or more
\* digits; a '-' is not a sign of an unsigned type
ParseUsize(s) ==
    IF s = <<>> THEN Err("Empty")
    ELSE IF Len(s) = 1 /\ Head(s) \in {"+", "-"} THEN Err("InvalidDigit")
    ELSE IF Head(s) = "+" THEN ParseDigits(Tail(s), 0)
    ELSE ParseDigits(s, 0)

\* what Command::output() gives for a count query: the spawn fails, or the
\* process ran and wrote stdout, valid UTF-8 or not (the exit status is not read)
QueryOutcomes ==
    {[kind |-> "spawn_error"], [kind |-> "non_utf8"]}
        \cup {[kind |-> "text", text |-> t] : t \in Texts}

\* faulty variant: unwrap_or_default() in place of unwrap_or(1)
CountFromOutputOrDefault(out) ==
    IF out.kind # "text" THEN 0
    ELSE LET parsed == ParseUsize(Trim(out.text)) IN
         IF parsed.ok THEN parsed.value ELSE 0

\* output.ok().and_then(from_utf8).and_then(|s| s.trim().parse().ok()).unwrap_or(1)
CountFromOutput(out) ==
    IF out.kind # "text" THEN 1
    ELSE LET parsed == ParseUsize(Trim(out.text)) IN
         IF parsed.ok THEN parsed.value ELSE 1

\* the command get_monitor_count runs, None when it returns before running one
MonitorQueryCommand(d) ==
    CASE d = "KdePlasma6" -> "qdbus6"
      [] d = "KdePlasma5" -> "qdbus"
      [] OTHER -> None

\* faulty variant: the query is run for every kind
get_monitor_count_any_kind(d, out) == CountFromOutput(out)

get_monitor_count(d, out) ==
    IF MonitorQueryCommand(d) = None THEN 1 ELSE CountFromOutput(out)

\* the command get_virtual_desktop_count runs, None when it returns before
VdQueryCommand(d) ==
    CASE d = "KdePlasma6" -> "qdbus6"
      [] OTHER -> None

get_virtual_desktop_count(d, out) ==
    IF VdQueryCommand(d) = None THEN 1 ELSE CountFromOutput(out)

\* ----------------------------------------- functions called on their own
\* the return value of a function before it has returned
Pending == [st |-> "pending"]

\* the log file: whether it exists and the characters it holds
NoFile == [exists |-> FALSE, bytes |-> <<>>]

\* let mut downloaded = 0; let mut skipped = 0; let mut failed = 0;
NoStats == [downloaded |-> 0, skipped |-> 0, failed |-> 0]

\* the run of set_wallpapers_with_options is not started
RunIdle ==
    /\ pc = "idle"
    /\ mode = None /\ random = FALSE /\ photos = <<>> /\ de = None
    /\ monitor_count = 0 /\ vd_count = 0 /\ effective_mode = None
    /\ assignments = <<>> /\ planned = FALSE /\ i = 0
    /\ calls = <<>> /\ queries = <<>> /\ log = <<>> /\ result = None
    /\ found = Pending /\ reports = <<>> /\ file = NoFile
    /\ wallpapers = {} /\ dir = {} /\ net = <<>> /\ sys = <<>> /\ stats = NoStats

Pools == UNION {[1..n -> Photos] : n \in 0..MaxPool}

PlanArgs ==
    [fn : {"build_assignments"}, mode : WallpaperMode, photos : Pools,
     monitor_count : 0..MaxPlan, vd_count : 0..MaxPlan]

\* the return value of a function called on its own
Returned(v) == [st |-> "returned", value |-> v]

Panicked == [st |-> "panic"]

PlanInit == RunIdle /\ args \in PlanArgs /\ ret = Pending

CallBuildAssignments ==
    /\ args.fn = "build_assignments" /\ ret = Pending
    /\ ret' = IF BuildPanics(args.mode, args.photos, args.monitor_count, args.vd_count)
              THEN Panicked
              ELSE Returned(build_assignments(args.mode, args.photos,
                                              args.monitor_count, args.vd_count))
    /\ UNCHANGED <<args, runVars>>

PlanNext == CallBuildAssignments

PlanSpec == PlanInit /\ [][PlanNext]_vars

ProbeArgs ==
    [fn : {"detect_desktop_environment"}, host : Hosts]
        \cup [fn : {"get_monitor_count", "get_virtual_desktop_count"},
              de : DesktopEnvironment, out : QueryOutcomes]

ProbeInit == RunIdle /\ args \in ProbeArgs /\ ret = Pending

CallDetect ==
    /\ args.fn = "detect_desktop_environment" /\ ret = Pending
    /\ ret' = Returned(detect_desktop_environment(args.host))
    /\ UNCHANGED <<args, runVars>>

CallGetMonitorCount ==
    /\ args.fn = "get_monitor_count" /\ ret = Pending
    /\ ret' = [st |-> "returned", value |-> get_monitor_count(args.de, args.out),
               query |-> MonitorQueryCommand(args.de)]
    /\ UNCHANGED <<args, runVars>>

CallGetVirtualDesktopCount ==
    /\ args.fn = "get_virtual_desktop_count" /\ ret = Pending
    /\ ret' = [st |-> "returned", value |-> get_virtual_desktop_count(args.de, args.out),
               query |-> VdQueryCommand(args.de)]
    /\ UNCHANGED <<args, runVars>>

ProbeNext == CallDetect \/ CallGetMonitorCount \/ CallGetVirtualDesktopCount

ProbeSpec == ProbeInit /\ [][ProbeNext]_vars

\* ---------------------------------------------------------------- write_log
\* characters of a log message: "a" stands for every character but newline
MessageChars == {"a", "\n"}

Messages == UNION {[1..n -> MessageChars] : n \in 0..MaxMsg}

\* Local::now().format("%Y-%m-%d %H:%M:%S"): "T" stands for the timestamp,
\* which holds no newline
Timestamp == <<"T">>

\* format!("[{}] {}\n", timestamp, message)
LogMessage(message) == <<"[">> \o Timestamp \o <<"]", " ">> \o message \o <<"\n">>

\* what the file system does to one call: open(..) fails, or it succeeds and
\* write_all writes all of data (written = Len(data)) or fails after a part
IoOutcomes(data) ==
    {[opened |-> FALSE, written |-> 0]}
        \cup {[opened |-> TRUE, written |-> n] : n \in 0..Len(data)}

\* faulty variant: the file is opened for writing from its start
FileAfterWriteTruncating(bytes, data) == data

\* a file opened with append(true): data goes after the bytes it holds
FileAfterWrite(bytes, data) == bytes \o data

\* write_log: create(true) makes the file when open succeeds; both the error
\* of open and the error of write_all are dropped
write_log(f, message, io) ==
    IF ~io.opened THEN f
    ELSE [exists |-> TRUE,
          bytes |-> FileAfterWrite(f.bytes,
                                   SubSeq(LogMessage(message), 1, io.written))]

\* str::lines(): the pieces between newlines, without a final empty piece
RECURSIVE LinesFrom(_, _)
LinesFrom(bytes, cur) ==
    IF bytes = <<>> THEN (IF cur = <<>> THEN <<>> ELSE <<cur>>)
    ELSE IF Head(bytes) = "\n" THEN <<cur>> \o LinesFrom(Tail(bytes), <<>>)
    ELSE LinesFrom(Tail(bytes), Append(cur, Head(bytes)))

Lines(bytes) == LinesFrom(bytes, <<>>)

LogInit == RunIdle /\ args = [fn |-> "write_log"] /\ ret = Pending

\* one call of write_log on the log path; i counts the calls and log holds the
\* messages whose line was written in full
WriteLog ==
    /\ args.fn = "write_log" /\ i < MaxWrites
    /\ \E message \in Messages :
         \E io \in IoOutcomes(LogMessage(message)) :
            /\ args' = [fn |-> "write_log", message |-> message, io |-> io]
            /\ file' = write_log(file, message, io)
            /\ log' = IF io.opened /\ io.written = Len(LogMessage(message))
                      THEN Append(log, message) ELSE log
    /\ i' = i + 1
    /\ ret' = Returned(None)
    /\ UNCHANGED <<pc, mode, random, photos, de, monitor_count, vd_count,
                   effective_mode, assignments, planned, calls, queries,
                   result, found, reports, wallpapers, dir, net, sys, stats>>

LogNext == WriteLog

LogSpec == LogInit /\ [][LogNext]_vars

\* ----------------------------------------------------------- sanitize_title
\* .take(100): the number of characters kept
TitleLimit == 100

\* characters of a title: the four that are replaced, and "A" for the others
TitleChars == {"/", " ", ":", "|", "A"}

\* lengths of a block of equal characters, chosen around the limit
BlockLens == {0, 1, 99, 100, 101}

Repeat(c, n) == [k \in 1..n |-> c]

RECURSIVE TitlesOf(_)
TitlesOf(n) ==
    IF n = 0 THEN {<<>>}
    ELSE {t \o Repeat(c, l) : t \in TitlesOf(n - 1), c \in TitleChars, l \in BlockLens}

Titles == TitlesOf(MaxBlocks)

\* str::replace(from, to) for a pattern of one character: every character is
\* looked at on its own, so the two halves of s are replaced separately
RECURSIVE Replace(_, _, _)
Replace(s, from, to) ==
    IF s = <<>> THEN <<>>
    ELSE IF Len(s) = 1 THEN (IF s[1] = from THEN to ELSE s)
    ELSE LET half == Len(s) \div 2
         IN  Replace(SubSeq(s, 1, half), from, to)
                 \o Replace(SubSeq(s, half + 1, Len(s)), from, to)

\* faulty variant: one character more than n is kept
TakeOneMore(s, n) == SubSeq(s, 1, IF Len(s) < n + 1 THEN Len(s) ELSE n + 1)

\* .chars().take(n).collect()
Take(s, n) == SubSeq(s, 1, IF Len(s) < n THEN Len(s) ELSE n)

sanitize_title(title) ==
    Take(Replace(Replace(Replace(Replace(title, "/", <<"_">>), " ", <<"_">>),
                         ":", <<>>), "|", <<"-">>),
         TitleLimit)

TitleInit ==
    RunIdle /\ args \in [fn : {"sanitize_title"}, title : Titles] /\ ret = Pending

CallSanitizeTitle ==
    /\ args.fn = "sanitize_title" /\ ret = Pending
    /\ ret' = Returned(sanitize_title(args.title))
    /\ UNCHANGED <<args, runVars>>

TitleNext == CallSanitizeTitle

TitleSpec == TitleInit /\ [][TitleNext]_vars

\* ------------------------------------------- is_valid_time, is_valid_interval
\* characters of a --time argument; "a" stands for every other character
ArgChars == {"1", "3", "h", "m", "H", ":"}

TimeArgs == UNION {[1..n -> ArgChars] : n \in 0..MaxArg}

\* str::split(sep): the pieces between the separators
RECURSIVE SplitFrom(_, _, _)
SplitFrom(s, sep, cur) ==
    IF s = <<>> THEN <<cur>>
    ELSE IF Head(s) = sep THEN <<cur>> \o SplitFrom(Tail(s), sep, <<>>)
    ELSE SplitFrom(Tail(s), sep, Append(cur, Head(s)))

Split(s, sep) == SplitFrom(s, sep, <<>>)

\* <u8 as FromStr>::from_str: as usize, with values above 255 an error
ParseU8(s) ==
    LET r == ParseUsize(s)
    IN  IF r.ok /\ r.value > 255 THEN Err("PosOverflow") ELSE r

is_valid_time(time) ==
    IF Len(time) # 5 THEN FALSE
    ELSE LET parts == Split(time, ":")
         IN  IF Len(parts) # 2 THEN FALSE
             ELSE LET hour == ParseU8(parts[1])
                      minute == ParseU8(parts[2])
                  IN  hour.ok /\ minute.ok /\ hour.value < 24 /\ minute.value < 60

\* char::to_lowercase on the characters of an argument
LowerChar(c) == IF c = "H" THEN "h" ELSE c

\* c.is_ascii_digit()
IsAsciiDigit(c) == c \in {"1", "3"}

\* for c in s.chars() { .. } true: the loop of is_valid_interval over the
\* lowercased text
RECURSIVE IntervalLoop(_, _)
IntervalLoop(s, has_value) ==
    IF s = <<>> THEN TRUE
    ELSE LET c == LowerChar(Head(s))
         IN  IF IsAsciiDigit(c) THEN IntervalLoop(Tail(s), TRUE)
             ELSE IF c \in {"h", "m"}
                  THEN (IF ~has_value THEN FALSE ELSE IntervalLoop(Tail(s), FALSE))
                  ELSE FALSE

is_valid_interval(interval) ==
    IF interval = <<>> THEN FALSE
    ELSE IF (\A k \in 1..Len(interval) : interval[k] \notin {"h", "m"}) THEN FALSE
    ELSE IntervalLoop(interval, FALSE)

\* parse_schedule: the time form is tried first
parse_schedule(time_arg) ==
    IF is_valid_time(time_arg) THEN Ok([kind |-> "DailyTime", text |-> time_arg])
    ELSE IF is_valid_interval(time_arg) THEN Ok([kind |-> "Interval", text |-> time_arg])
    ELSE Err("Command")

ScheduleInit ==
    /\ RunIdle /\ ret = Pending
    /\ args \in [fn : {"is_valid_interval", "parse_schedule"}, text : TimeArgs]

CallIsValidInterval ==
    /\ args.fn = "is_valid_interval" /\ ret = Pending
    /\ ret' = Returned(is_valid_interval(args.text))
    /\ UNCHANGED <<args, runVars>>

CallParseSchedule ==
    /\ args.fn = "parse_schedule" /\ ret = Pending
    /\ ret' = Returned(parse_schedule(args.text))
    /\ UNCHANGED <<args, runVars>>

ScheduleNext == CallIsValidInterval \/ CallParseSchedule

ScheduleSpec == ScheduleInit /\ [][ScheduleNext]_vars

\* ----------------------------------------- download_natgeo_photo_of_the_day
\* file names and titles are sequences of pieces: "." is the dot, "jpg",
\* "png", "gif" and "txt" stand for those letters, "a" and "b" for other text

\* the sanitized titles a photo is saved under
SanitizedTitles == {<<>>, <<"a">>, <<"a", ".", "b">>}

\* format!("{}/{}.{}", save_dir, sanitized_title, file_extension), without
\* the directory
FileName(title, ext) == title \o <<".", ext>>

\* a file of save_dir: its name, whether it is below MIN_PHOTO_SIZE_BYTES, and
\* the request that wrote it (0: it was there before)
DirFile(name, small, gen) == [name |-> name, small |-> small, gen |-> gen]

InitialFiles ==
    {DirFile(FileName(<<"a">>, "jpg"), FALSE, 0),
     DirFile(FileName(<<"a">>, "txt"), FALSE, 0),
     DirFile(FileName(<<"a", ".", "b">>, "gif"), TRUE, 0)}

\* Option: Some(v) and None
Some(v) == [some |-> TRUE, value |-> v]

Nothing == [some |-> FALSE]

\* the position of the last dot of a name, 0 without dot
LastDot(name) ==
    LET dots == {k \in 1..Len(name) : name[k] = "."}
    IN  IF dots = {} THEN 0 ELSE CHOOSE k \in dots : \A l \in dots : l <= k

\* Path::file_stem: the name before its last dot; the whole name when it has
\* no dot or only a leading one
file_stem(name) ==
    IF LastDot(name) <= 1 THEN name ELSE SubSeq(name, 1, LastDot(name) - 1)

\* Path::extension: the name after its last dot; None when it has no dot or
\* only a leading one
extension(name) ==
    IF LastDot(name) <= 1 THEN Nothing
    ELSE Some(SubSeq(name, LastDot(name) + 1, Len(name)))

\* stem == sanitized_title && matches!(ext, "jpg" | "png" | "gif") for an
\* entry of the listing; a directory that cannot be listed has no entry
AlreadyExists(d, readable, title) ==
    /\ readable
    /\ \E f \in d :
          /\ file_stem(f.name) = title
          /\ extension(f.name) \in {Some(<<"jpg">>), Some(<<"png">>), Some(<<"gif">>)}

\* get_extension_from_content_type, with the default of its caller
FileExtension(content_type) ==
    CASE content_type = "jpeg" -> "jpg"
      [] content_type = "png" -> "png"
      [] content_type = "gif" -> "gif"
      [] OTHER -> "jpg"

\* what the network and the disk do to one download: the client cannot be
\* built; the request fails; the status is no success; File::create fails;
\* the body cannot be read (the file is left empty); the photo is written
Responses ==
    [kind : {"client_error", "send_error", "http_error", "create_error"}]
        \cup [kind : {"body_error"}, content_type : {"jpeg", "png", "gif", "other"}]
        \cup [kind : {"saved"}, content_type : {"jpeg", "png", "gif", "other"},
              small : BOOLEAN]

\* File::create(name): the file is made, or emptied when it is there
CreateFile(d, name, small, gen) ==
    {f \in d : f.name # name} \cup {DirFile(name, small, gen)}

\* the function: the directory after it, the requests it sent, what it logged
\* and its result
download_natgeo_photo_of_the_day(d, readable, title, resp, gen) ==
    IF AlreadyExists(d, readable, title)
    THEN [dir |-> d, sent |-> <<>>,
          logged |-> <<[msg |-> "Photo already exists", title |-> title]>>,
          result |-> Ok(None)]
    ELSE IF resp.kind = "client_error"
    THEN [dir |-> d, sent |-> <<>>, logged |-> <<>>, result |-> Err("Network")]
    ELSE IF resp.kind = "send_error"
    THEN [dir |-> d, sent |-> <<title>>, logged |-> <<>>, result |-> Err("Network")]
    ELSE IF resp.kind = "http_error"
    THEN [dir |-> d, sent |-> <<title>>, logged |-> <<>>,
          result |-> Err("InvalidContentType")]
    ELSE IF resp.kind = "create_error"
    THEN [dir |-> d, sent |-> <<title>>, logged |-> <<>>, result |-> Err("File")]
    ELSE IF resp.kind = "body_error"
    THEN [dir |-> CreateFile(d, FileName(title, FileExtension(resp.content_type)),
                             TRUE, gen),
          sent |-> <<title>>, logged |-> <<>>, result |-> Err("Network")]
    ELSE [dir |-> CreateFile(d, FileName(title, FileExtension(resp.content_type)),
                             resp.small, gen),
          sent |-> <<title>>,
          logged |-> <<[msg |-> "Downloaded photo", title |-> title]>>,
          result |-> Ok(None)]

DownloadInit ==
    /\ pc = "idle"
    /\ mode = None /\ random = FALSE /\ photos = <<>> /\ de = None
    /\ monitor_count = 0 /\ vd_count = 0 /\ effective_mode = None
    /\ assignments = <<>> /\ planned = FALSE /\ i = 0
    /\ calls = <<>> /\ queries = <<>> /\ log = <<>> /\ result = None
    /\ found = Pending /\ reports = <<>> /\ file = NoFile
    /\ wallpapers = {} /\ net = <<>> /\ sys = <<>> /\ stats = NoStats
    /\ dir \in SUBSET InitialFiles
    /\ args = [fn |-> "download_natgeo_photo_of_the_day"] /\ ret = Pending

\* one call of the function on the directory; i counts the calls
CallDownload ==
    /\ args.fn = "download_natgeo_photo_of_the_day" /\ i < MaxDownloads
    /\ \E title \in SanitizedTitles, resp \in Responses, readable \in BOOLEAN :
         LET out == download_natgeo_photo_of_the_day(dir, readable, title, resp,
                                                     Len(net) + 1)
         IN  /\ args' = [fn |-> "download_natgeo_photo_of_the_day",
                         title |-> title, readable |-> readable, resp |-> resp]
             /\ dir' = out.dir
             /\ net' = net \o out.sent
             /\ log' = log \o out.logged
             /\ ret' = Returned(out.result)
    /\ i' = i + 1
    /\ UNCHANGED <<pc, mode, random, photos, de, monitor_count, vd_count,
                   effective_mode, assignments, planned, calls, queries,
                   result, found, reports, file, wallpapers, sys, stats>>

DownloadNext == CallDownload

DownloadSpec == DownloadInit /\ [][DownloadNext]_vars

\* ------------------------------------------------------ download_collection
\* titles of the photos of a collection, before sanitize_title
CollectionTitles == {<<"a", ":">>, <<":">>}

Collections == UNION {[1..n -> CollectionTitles] : n \in 0..MaxCollection}

\* find_downloaded_file: the first of title.jpg, title.png, title.gif that
\* exists, None without one
find_downloaded_file(d, title) ==
    LET at(ext) == {f \in d : f.name = FileName(title, ext)}
    IN  IF at("jpg") # {} THEN Some(CHOOSE f \in at("jpg") : TRUE)
        ELSE IF at("png") # {} THEN Some(CHOOSE f \in at("png") : TRUE)
        ELSE IF at("gif") # {} THEN Some(CHOOSE f \in at("gif") : TRUE)
        ELSE Nothing

\* the counter a photo goes to: skipped when it is there already or when the
\* file saved is too small, failed when the download returned an error
Classify(already_exists, downloaded_ok, too_small) ==
    IF already_exists THEN "skipped"
    ELSE IF ~downloaded_ok THEN "failed"
    ELSE IF too_small THEN "skipped"
    ELSE "downloaded"

\* faulty variant: a skipped photo is not counted
CountUnlessSkipped(st, which) ==
    IF which = "skipped" THEN st ELSE [st EXCEPT ![which] = @ + 1]

\* downloaded += 1, skipped += 1 or failed += 1
Count(st, which) == [st EXCEPT ![which] = @ + 1]

CollectionInit ==
    /\ pc = "collection_start"
    /\ mode = None /\ random = FALSE /\ photos = <<>> /\ de = None
    /\ monitor_count = 0 /\ vd_count = 0 /\ effective_mode = None
    /\ assignments = <<>> /\ planned = FALSE /\ i = 0
    /\ calls = <<>> /\ queries = <<>> /\ log = <<>> /\ result = None
    /\ found = Pending /\ reports = <<>> /\ file = NoFile
    /\ wallpapers = {} /\ net = <<>> /\ sys = <<>> /\ stats = NoStats
    /\ dir \in SUBSET InitialFiles
    /\ args \in [fn : {"download_collection"}, photos : Collections]
    /\ ret = Pending

collectionRest == <<mode, random, photos, de, monitor_count, vd_count,
                    effective_mode, assignments, planned, calls, queries,
                    result, found, reports, file, wallpapers, sys, args>>

\* create_dir_all(&save_dir)?; the two opening records; the counters at 0
StartCollection ==
    /\ pc = "collection_start"
    /\ \E created \in BOOLEAN :
         IF created
         THEN /\ log' = log \o <<[msg |-> "Starting download of collection"],
                                  [msg |-> "Total photos", n |-> Len(args.photos)]>>
              /\ pc' = "collection_loop"
              /\ UNCHANGED ret
         ELSE /\ ret' = Returned(Err("File"))
              /\ pc' = "collection_done"
              /\ UNCHANGED log
    /\ stats' = NoStats
    /\ i' = 0
    /\ UNCHANGED <<dir, net, collectionRest>>

\* one body of for photo in &collection.photos
CollectionPhoto ==
    /\ pc = "collection_loop" /\ i < Len(args.photos)
    /\ \E readable \in BOOLEAN :
         LET sanitized_title == sanitize_title(args.photos[i + 1])
             already_exists == AlreadyExists(dir, readable, sanitized_title)
         IN  IF already_exists
             THEN /\ stats' = Count(stats, Classify(TRUE, FALSE, FALSE))
                  /\ UNCHANGED <<dir, net, log>>
             ELSE \E resp \in Responses :
                  LET out == download_natgeo_photo_of_the_day(
                                 dir, readable, sanitized_title, resp, Len(net) + 1)
                      downloaded_file == find_downloaded_file(out.dir, sanitized_title)
                      measured == out.result.ok /\ downloaded_file.some
                  IN  \E metadata_ok \in (IF measured THEN BOOLEAN ELSE {FALSE}) :
                      LET too_small == /\ measured /\ metadata_ok
                                       /\ downloaded_file.value.small
                      IN  /\ net' = net \o out.sent
                          /\ stats' = Count(stats, Classify(FALSE, out.result.ok,
                                                            too_small))
                          /\ IF ~out.result.ok
                             THEN /\ dir' = out.dir
                                  /\ log' = log \o out.logged
                                              \o <<[msg |-> "Failed to download",
                                                    title |-> args.photos[i + 1]]>>
                             ELSE IF too_small
                             THEN /\ \E removed \in BOOLEAN :
                                       dir' = IF removed
                                              THEN out.dir \ {downloaded_file.value}
                                              ELSE out.dir
                                  /\ log' = log \o out.logged
                                              \o <<[msg |-> "Removed",
                                                    title |-> sanitized_title]>>
                             ELSE /\ dir' = out.dir
                                  /\ log' = log \o out.logged
    /\ i' = i + 1
    /\ UNCHANGED <<pc, ret, collectionRest>>

\* the closing record and Ok(CollectionDownloadResult { .. })
FinishCollection ==
    /\ pc = "collection_loop" /\ i = Len(args.photos)
    /\ log' = Append(log, [msg |-> "Collection download complete",
                           downloaded |-> stats.downloaded,
                           skipped |-> stats.skipped, failed |-> stats.failed])
    /\ ret' = Returned(Ok(stats))
    /\ pc' = "collection_done"
    /\ UNCHANGED <<i, stats, dir, net, collectionRest>>

CollectionNext == StartCollection \/ CollectionPhoto \/ FinishCollection

CollectionSpec == CollectionInit /\ [][CollectionNext]_vars

\* ----------------------------------------- the natgeo-wallpaper.service unit
\* the options install_systemd_timer builds the unit from
ServiceOptions ==
    [fn : {"natgeo-wallpaper.service"}, random : BOOLEAN,
     path : {Nothing, Some("custom")}, lock_screen : BOOLEAN]

\* let mut set_args = String::from("set"); ... the words of the set command
SetArgs(o) ==
    <<"set">> \o (IF o.random THEN <<"--random">> ELSE <<>>)
              \o (IF o.path.some THEN <<"--path", o.path.value>> ELSE <<>>)
              \o (IF o.lock_screen THEN <<"--lock-screen">> ELSE <<>>)

\* for i in 1 2 3
AttemptList == <<1, 2, 3>>

\* sleep 60
SleepSeconds == 60

\* faulty variant: the list is left one attempt late
LoopGoesOnLate(k) == k <= Len(AttemptList)

\* the for loop has a word after the k-th
LoopGoesOn(k) == k < Len(AttemptList)

\* one command the shell of the unit ran, and whether it exited with 0
Ran(cmd, ok) == [cmd |-> cmd, ok |-> ok]

ServiceInit ==
    /\ pc = "service_download"
    /\ mode = None /\ random = FALSE /\ photos = <<>> /\ de = None
    /\ monitor_count = 0 /\ vd_count = 0 /\ effective_mode = None
    /\ assignments = <<>> /\ planned = FALSE /\ i = 1
    /\ calls = <<>> /\ queries = <<>> /\ log = <<>> /\ result = None
    /\ found = Pending /\ reports = <<>> /\ file = NoFile
    /\ wallpapers = {} /\ dir = {} /\ net = <<>> /\ sys = <<>> /\ stats = NoStats
    /\ args \in ServiceOptions
    /\ ret = Pending

serviceRest == <<mode, random, photos, de, monitor_count, vd_count,
                 effective_mode, assignments, planned, calls, queries, log,
                 found, reports, file, wallpapers, dir, net, stats, args, ret>>

\* {binary} download && ..: the set command follows only when it exits with 0
ServiceDownload ==
    /\ pc = "service_download"
    /\ \E ok \in BOOLEAN :
         /\ sys' = Append(sys, Ran(<<"download">>, ok))
         /\ pc' = IF ok THEN "service_set" ELSE "service_sleep"
    /\ UNCHANGED <<i, result, serviceRest>>

\* .. && {binary} {set_args} && exit 0 || ..
ServiceSet ==
    /\ pc = "service_set"
    /\ \E ok \in BOOLEAN :
         /\ sys' = Append(sys, Ran(SetArgs(args), ok))
         /\ IF ok THEN pc' = "service_exited" /\ result' = "exit 0"
                  ELSE pc' = "service_sleep" /\ UNCHANGED result
    /\ UNCHANGED <<i, serviceRest>>

\* .. || sleep 60; done; exit 1: the status of sleep is not looked at
ServiceSleep ==
    /\ pc = "service_sleep"
    /\ \E ok \in BOOLEAN : sys' = Append(sys, Ran(<<"sleep", SleepSeconds>>, ok))
    /\ IF LoopGoesOn(i)
       THEN pc' = "service_download" /\ i' = i + 1 /\ UNCHANGED result
       ELSE pc' = "service_exited" /\ result' = "exit 1" /\ UNCHANGED i
    /\ UNCHANGED serviceRest

ServiceNext == ServiceDownload \/ ServiceSet \/ ServiceSleep

ServiceSpec == ServiceInit /\ [][ServiceNext]_vars

\* ------------------------------- install_systemd_timer, uninstall_systemd_timer
\* a unit file in ~/.config/systemd/user
UnitFile(name, content) == [name |-> name, content |-> content]

ServiceName == "natgeo-wallpaper.service"

TimerName == "natgeo-wallpaper.timer"

\* unit files found there before the first command: written by someone else
OldUnitFiles == {UnitFile(ServiceName, "old"), UnitFile(TimerName, "old")}

\* std::path::Path::exists
exists(d, name) == \E f \in d : f.name = name

\* fs::write: the file is created or replaced
write(d, name, content) == {f \in d : f.name # name} \cup {UnitFile(name, content)}

\* faulty variant: the file stays
keep_file(d, name) == d

\* fs::remove_file
remove_file(d, name) == {f \in d : f.name # name}

\* a command whose outcome the code does not look at
Invoked(cmd) == [cmd |-> cmd]

Systemctl(words) == Invoked(<<"systemctl", "--user">> \o words)

\* faulty variant: the answer of which is not looked at
which_ignored(succeeded) == FALSE

\* Command::new("which").arg("systemctl") .. .map(|o| !o.status.success())
\* .unwrap_or(true)
which_fails(succeeded) == ~succeeded

\* the --time values tried: a time, an interval, and two that are neither
InstallTimes ==
    {<<"1", "1", ":", "1", "3">>, <<"3", "m">>, <<"3", ":">>, <<>>}

\* what prompt_for_schedule can return: a preset, a custom time or interval
\* that passed its validity loop, the cancellation, a failed read of stdin
PromptOutcomes ==
    {Ok([kind |-> "DailyTime", text |-> <<"0", "2", ":", "0", "0">>]),
     Ok([kind |-> "Interval", text |-> <<"1", "h">>]),
     Ok([kind |-> "Interval", text |-> <<"3", "0", "m">>]),
     Err("Command"), Err("File")}
    \cup {Ok([kind |-> "DailyTime", text |-> t]) : t \in {u \in InstallTimes : is_valid_time(u)}}
    \cup {Ok([kind |-> "Interval", text |-> t]) : t \in {u \in InstallTimes : is_valid_interval(u)}}

\* the options of the install command the model tries
InstallOptions ==
    {[random |-> FALSE, path |-> Nothing, lock_screen |-> FALSE],
     [random |-> TRUE, path |-> Some("custom"), lock_screen |-> TRUE]}

\* the step of install_systemd_timer after the schedule that fails, if any
InstallFaults ==
    {"none", "current_exe", "HOME", "create_dir_all", "create_service",
     "write_service", "create_timer", "write_timer", "download", "set",
     "lock_screen"}

\* the steps from fs::write of the service file on; a fs::write that fails
\* has either not created the file or left it cut short
InstallUnits(d, sent, schedule, o, fault) ==
    IF fault = "create_service" THEN [dir |-> d, sys |-> sent, result |-> Err("File")]
    ELSE IF fault = "write_service"
    THEN [dir |-> write(d, ServiceName, "cut short"), sys |-> sent, result |-> Err("File")]
    ELSE LET d1 == write(d, ServiceName, SetArgs(o))
         IN  IF fault = "create_timer"
             THEN [dir |-> d1, sys |-> sent, result |-> Err("File")]
             ELSE IF fault = "write_timer"
             THEN [dir |-> write(d1, TimerName, "cut short"), sys |-> sent,
                   result |-> Err("File")]
             ELSE LET d2 == write(d1, TimerName, schedule)
                      sent2 == sent \o <<Systemctl(<<"daemon-reload">>),
                                         Systemctl(<<"enable", TimerName>>),
                                         Systemctl(<<"start", TimerName>>)>>
                  IN  [dir |-> d2, sys |-> sent2,
                       result |-> IF fault \in {"download", "set"} THEN Err(fault)
                                  ELSE IF fault = "lock_screen" /\ o.lock_screen
                                  THEN Err(fault)
                                  ELSE Ok("unit")]

install_systemd_timer(d, systemctl, time, prompt, o, fault) ==
    LET sent == <<Ran(<<"which", "systemctl">>, systemctl)>>
    IN  IF which_fails(systemctl)
        THEN [dir |-> d, sys |-> sent, result |-> Err("Command")]
        ELSE LET schedule == IF time.some THEN parse_schedule(time.value) ELSE prompt
             IN  IF ~schedule.ok
                 THEN [dir |-> d, sys |-> sent, result |-> schedule]
                 ELSE IF fault = "current_exe"
                 THEN [dir |-> d, sys |-> sent, result |-> Err("File")]
                 ELSE IF fault = "HOME"
                 THEN [dir |-> d, sys |-> sent, result |-> Err("Command")]
                 ELSE IF fault = "create_dir_all"
                 THEN [dir |-> d, sys |-> sent, result |-> Err("File")]
                 ELSE InstallUnits(d, sent, schedule.value, o, fault)

\* the step of uninstall_systemd_timer that fails, if any
UninstallFaults == {"none", "HOME", "remove_service", "remove_timer"}

uninstall_systemd_timer(d, fault) ==
    IF fault = "HOME" THEN [dir |-> d, sys |-> <<>>, result |-> Err("Command")]
    ELSE LET sent == <<Systemctl(<<"stop", TimerName>>),
                       Systemctl(<<"disable", TimerName>>)>>
         IN  IF exists(d, ServiceName) /\ fault = "remove_service"
             THEN [dir |-> d, sys |-> sent, result |-> Err("File")]
             ELSE LET d1 == IF exists(d, ServiceName) THEN remove_file(d, ServiceName)
                            ELSE d
                  IN  IF exists(d1, TimerName) /\ fault = "remove_timer"
                      THEN [dir |-> d1, sys |-> sent, result |-> Err("File")]
                      ELSE [dir |-> IF exists(d1, TimerName)
                                    THEN remove_file(d1, TimerName) ELSE d1,
                            sys |-> Append(sent, Systemctl(<<"daemon-reload">>)),
                            result |-> Ok("unit")]

InstallInit ==
    /\ pc = "shell"
    /\ mode = None /\ random = FALSE /\ photos = <<>> /\ de = None
    /\ monitor_count = 0 /\ vd_count = 0 /\ effective_mode = None
    /\ assignments = <<>> /\ planned = FALSE /\ i = 0
    /\ calls = <<>> /\ queries = <<>> /\ log = <<>> /\ result = None
    /\ found = Pending /\ reports = <<>> /\ file = NoFile
    /\ wallpapers = {} /\ net = <<>> /\ sys = <<>> /\ stats = NoStats
    /\ dir \in SUBSET OldUnitFiles
    /\ args = [fn |-> None]
    /\ ret = Pending

installRest == <<pc, mode, random, photos, de, monitor_count, vd_count,
                 effective_mode, assignments, planned, calls, queries, log,
                 result, found, reports, file, wallpapers, net, stats>>

\* natgeo-wallpapers install [--time T] [--random] [--path P] [--lock-screen]
Install ==
    /\ pc = "shell" /\ i < MaxOps
    /\ \E systemctl \in BOOLEAN, o \in InstallOptions,
          time \in {Nothing} \cup {Some(t) : t \in InstallTimes} :
         \E prompt \in IF time.some THEN {Nothing} ELSE PromptOutcomes :
           \E fault \in IF (IF time.some THEN parse_schedule(time.value).ok
                                        ELSE prompt.ok)
                         THEN IF o.lock_screen THEN InstallFaults
                              ELSE InstallFaults \ {"lock_screen"}
                         ELSE {"none"} :
             LET out == install_systemd_timer(dir, systemctl, time, prompt, o, fault)
             IN  /\ dir' = out.dir
                 /\ sys' = sys \o out.sys
                 /\ ret' = Returned(out.result)
                 /\ args' = [fn |-> "install_systemd_timer", systemctl |-> systemctl,
                             time |-> time, prompt |-> prompt, random |-> o.random,
                             path |-> o.path, lock_screen |-> o.lock_screen,
                             fault |-> fault]
    /\ i' = i + 1
    /\ UNCHANGED installRest

\* natgeo-wallpapers install --uninstall
Uninstall ==
    /\ pc = "shell" /\ i < MaxOps
    /\ \E fault \in UninstallFaults :
         /\ fault = "remove_service" => exists(dir, ServiceName)
         /\ fault = "remove_timer" => exists(dir, TimerName)
         /\ LET out == uninstall_systemd_timer(dir, fault)
            IN  /\ dir' = out.dir
                /\ sys' = sys \o out.sys
                /\ ret' = Returned(out.result)
                /\ args' = [fn |-> "uninstall_systemd_timer", fault |-> fault]
    /\ i' = i + 1
    /\ UNCHANGED installRest

InstallNext == Install \/ Uninstall

InstallSpec == InstallInit /\ [][InstallNext]_vars

\* ------------------------------------------------------ find_photos_in_path
\* file extensions met on disk; "txt" stands for every unsupported extension
\* and None for a file name without extension
Exts == {"jpg", "PNG", "txt"}

\* str::to_lowercase on the extensions of the model
ToLowercase(ext) == IF ext = "PNG" THEN "png" ELSE ext

\* matches!(ext.to_lowercase().as_str(), "jpg" | "jpeg" | "png" | "gif")
IsImageExt(ext) == ToLowercase(ext) \in {"jpg", "jpeg", "png", "gif"}

Entries == [path : Photos, ext : Exts]

\* the files below a directory in the order read_dir walks them (any order),
\* each path once
DirListings ==
    {l \in UNION {[1..n -> Entries] : n \in 0..MaxPhotos} :
        \A a, b \in 1..Len(l) : a # b => l[a].path # l[b].path}

\* what the search path is on disk
FsStates ==
    {[kind |-> "missing"]}
        \cup [kind : {"file"}, path : Photos, ext : Exts \cup {None}]
        \cup [kind : {"dir"}, listing : DirListings, io_error : BOOLEAN]

\* collect_photos: the image files of the walk, in walk order
RECURSIVE collect_photos(_)
collect_photos(listing) ==
    IF listing = <<>> THEN <<>>
    ELSE IF IsImageExt(Head(listing).ext)
         THEN <<Head(listing).path>> \o collect_photos(Tail(listing))
         ELSE collect_photos(Tail(listing))

\* insertion of x into an ascending sequence
RECURSIVE Insert(_, _)
Insert(x, sorted) ==
    IF sorted = <<>> THEN <<x>>
    ELSE IF x <= Head(sorted) THEN <<x>> \o sorted
         ELSE <<Head(sorted)>> \o Insert(x, Tail(sorted))

\* photos.sort(): ascending path order
RECURSIVE Sort(_)
Sort(seq) == IF seq = <<>> THEN <<>> ELSE Insert(Head(seq), Sort(Tail(seq)))

\* faulty variant: the sorted list is not reversed
ReverseOmitted(seq) == seq

\* photos.reverse()
Reverse(seq) == [k \in 1..Len(seq) |-> seq[Len(seq) + 1 - k]]

\* faulty variant: an empty result is returned as Ok
find_photos_in_path_unchecked(fs) ==
    IF fs.kind = "missing" THEN Err("NoPhotos")
    ELSE IF fs.kind = "file" /\ fs.ext # None /\ ~IsImageExt(fs.ext)
         THEN Err("NoPhotos")
    ELSE IF fs.kind = "dir" /\ fs.io_error THEN Err("File")
    ELSE Ok(Reverse(Sort(IF fs.kind = "file"
                         THEN (IF fs.ext # None THEN <<fs.path>> ELSE <<>>)
                         ELSE collect_photos(fs.listing))))

find_photos_in_path(fs) ==
    IF fs.kind = "missing" THEN Err("NoPhotos")
    ELSE IF fs.kind = "file" /\ fs.ext # None /\ ~IsImageExt(fs.ext)
         THEN Err("NoPhotos")
    ELSE IF fs.kind = "dir" /\ fs.io_error THEN Err("File")
    ELSE LET walked == IF fs.kind = "file"
                      THEN (IF fs.ext # None THEN <<fs.path>> ELSE <<>>)
                      ELSE collect_photos(fs.listing)
         IN  IF walked = <<>> THEN Err("NoPhotos")
             ELSE Ok(Reverse(Sort(walked)))

\* ----------------------------------------------- set_wallpapers_with_options
\* every order photos.shuffle(&mut rng) can leave the pool in
Shuffles(seq) ==
    {[k \in 1..Len(seq) |-> seq[f[k]]] :
        f \in {g \in [1..Len(seq) -> 1..Len(seq)] :
                  \A a, b \in 1..Len(seq) : a # b => g[a] # g[b]}}

\* faulty variant: the Unknown arm does not return
SupportedAlways(d) == TRUE

\* the match on de that reports the environment: every kind but Unknown goes on
Supported(d) == d # "Unknown"

\* faulty variant: KdePlasma5 keeps the requested mode too
EffectiveModeAnyPlasma(d, requested) ==
    IF d \in {"KdePlasma6", "KdePlasma5"} THEN requested ELSE "Monitors"

\* let effective_mode = match de { KdePlasma6 => mode, _ => Monitors }
EffectiveMode(d, requested) ==
    IF d = "KdePlasma6" THEN requested ELSE "Monitors"

\* what a set_wallpaper_* function returns: Ok(()), Err(PhotoError::Command)
\* when the tool cannot be started, Err(PhotoError::Wallpaper(stderr)) when it
\* exits with a failure status
ApplyOutcomes == {"Ok", "Command", "Wallpaper"}

\* one invocation of a set_wallpaper_* function: the assignment position it is
\* for, the monitor index passed (-1: the tool takes none) and the photo
ApplyCall(fn, pos, monitor_idx, photo_path, outcome) ==
    [fn |-> fn, pos |-> pos, monitor_idx |-> monitor_idx,
     photo_path |-> photo_path, outcome |-> outcome]

\* faulty variant: a desktop that has an image keeps it
WriteConfigOnce(w, idx, photo_path) ==
    IF \E r \in w : r.monitor = idx THEN w
    ELSE w \cup {[monitor |-> idx, image |-> photo_path]}

\* d = allDesktops[idx]; d.writeConfig('Image', 'file://path'): the desktop of
\* that index shows the photo, whatever it showed before.  Every index the
\* appliers pass is below the monitor count, taken to be within
\* allDesktops.length
WriteConfig(w, idx, photo_path) ==
    {r \in w : r.monitor # idx} \cup {[monitor |-> idx, image |-> photo_path]}

\* the desktops after the calls cs, made in order: a call that returned Ok
\* has run its script, a failed one is taken to have changed nothing
RECURSIVE Painted(_, _)
Painted(w, cs) ==
    IF cs = <<>> THEN w
    ELSE Painted(IF Head(cs).outcome = "Ok"
                 THEN WriteConfig(w, Head(cs).monitor_idx, Head(cs).photo_path)
                 ELSE w,
                 Tail(cs))

\* format!("Set {} to: {}", assignment.location, assignment.photo_path.display())
SetMessage(a) == "Set " \o a.location \o " to: " \o PathDisplay(a.photo_path)

\* the environments whose applier loops over all the assignments
Batch == {"KdePlasma6", "KdePlasma5"}

\* faulty variant: the plan is walked from its end
CurrentFromEnd(asgs, pos) == asgs[Len(asgs) - pos]

\* assignments.iter().enumerate(): the assignment of the loop body numbered pos
Current(asgs, pos) == asgs[pos + 1]

\* faulty variant: the position is passed as the monitor index in Both mode too
MonitorIdxNoWrap(eff_mode, pos, monitor_cnt) == pos

\* the monitor index apply_kde_plasma6_wallpapers passes for position pos:
\* i in Monitors mode, i % monitor_count in Both mode
MonitorIdx(eff_mode, pos, monitor_cnt) ==
    IF eff_mode = "Both" THEN pos % monitor_cnt ELSE pos

\* faulty variant: the photo is set on the first monitor only
AllMonitorsCallsFirstOnly(pos, a, monitor_cnt, outcomes) ==
    [mon \in 1..(IF monitor_cnt > 0 THEN 1 ELSE 0) |->
        ApplyCall("set_wallpaper_qdbus6", pos, mon - 1, a.photo_path, outcomes[mon])]

\* for mon in 0..monitor_count { let _ = set_wallpaper_qdbus6(mon, photo); }
AllMonitorsCalls(pos, a, monitor_cnt, outcomes) ==
    [mon \in 1..monitor_cnt |->
        ApplyCall("set_wallpaper_qdbus6", pos, mon - 1, a.photo_path, outcomes[mon])]

\* the indicator printed for a target: a check mark, or a cross with the error
Report(pos, outcome) ==
    [pos |-> pos, ok |-> outcome = "Ok",
     diag |-> IF outcome = "Ok" THEN None ELSE outcome]

\* faulty variant: the first failed call ends the loop
AfterApplyStopOnError(outcome, pos, n) ==
    IF outcome # "Ok" \/ pos + 1 >= n THEN "finish" ELSE "apply"

\* where the apply loop goes after the body for position pos, whatever the
\* outcome of the call: the match on the result has no break and no return
AfterApply(outcome, pos, n) == IF pos + 1 >= n THEN "finish" ELSE "apply"

Init ==
    /\ pc = "start"
    /\ mode \in WallpaperMode
    /\ random \in BOOLEAN
    /\ photos = <<>> /\ de = None
    /\ monitor_count = 0 /\ vd_count = 0 /\ effective_mode = None
    /\ assignments = <<>> /\ planned = FALSE /\ i = 0
    /\ calls = <<>> /\ queries = <<>> /\ log = <<>> /\ result = None
    /\ found = Pending /\ reports = <<>> /\ file = NoFile
    /\ wallpapers = {} /\ dir = {} /\ net = <<>> /\ sys = <<>> /\ stats = NoStats
    /\ args = [fn |-> "set_wallpapers_with_options"]
    /\ ret = Pending

\* create_dir_all(parent)?; write_log("Starting wallpaper set with mode: ...")
EnsureLogDir ==
    /\ pc = "start"
    /\ UNCHANGED <<found, reports, file, wallpapers, dir, net, sys, stats>>
    /\ \E created \in BOOLEAN :
        IF created
        THEN /\ log' = Append(log, "Starting wallpaper set with mode: "
                                       \o ModeToString(mode))
             /\ pc' = "find"
             /\ UNCHANGED result
        ELSE /\ result' = "Err(File)"
             /\ pc' = "done"
             /\ UNCHANGED log
    /\ UNCHANGED <<mode, random, photos, de, monitor_count, vd_count,
                   effective_mode, assignments, planned, i, calls, queries,
                   args, ret>>

\* let mut photos = find_photos_in_path(path.as_deref())?;
\* by_default: the path is None and the search path is the photo directory,
\* whose state is kept in dir
FindPhotosIn(by_default) ==
    /\ pc = "find"
    /\ \E fs \in FsStates :
        /\ found' = find_photos_in_path(fs)
        /\ dir' = IF by_default THEN fs ELSE dir
        /\ IF found'.ok
           THEN /\ photos' = found'.value
                /\ pc' = "shuffle"
                /\ UNCHANGED result
           ELSE /\ result' = "Err(" \o found'.error \o ")"
                /\ pc' = "done"
                /\ UNCHANGED photos
    /\ UNCHANGED <<reports, file, wallpapers, net, sys, stats>>
    /\ UNCHANGED <<mode, random, de, monitor_count, vd_count, effective_mode,
                   assignments, planned, i, calls, queries, log, args, ret>>

\* called on its own, the search path is any path
FindPhotos == FindPhotosIn(FALSE)

\* if random { photos.shuffle(&mut rng); }
SelectPool ==
    /\ pc = "shuffle"
    /\ UNCHANGED <<found, reports, file, wallpapers, dir, net, sys, stats>>
    /\ photos' \in (IF random THEN Shuffles(photos) ELSE {photos})
    /\ pc' = "detect"
    /\ UNCHANGED <<mode, random, de, monitor_count, vd_count, effective_mode,
                   assignments, planned, i, calls, queries, log, result, args, ret>>

\* let de = detect_desktop_environment();
Detect ==
    /\ pc = "detect"
    /\ UNCHANGED <<found, reports, file, wallpapers, dir, net, sys, stats>>
    /\ \E host \in Hosts : de' = detect_desktop_environment(host)
    /\ pc' = "probe_monitors"
    /\ UNCHANGED <<mode, random, photos, monitor_count, vd_count, effective_mode,
                   assignments, planned, i, calls, queries, log, result, args, ret>>

\* let monitor_count = get_monitor_count(de);
ProbeMonitors ==
    /\ pc = "probe_monitors"
    /\ UNCHANGED <<found, reports, file, wallpapers, dir, net, sys, stats>>
    /\ \E out \in QueryOutcomes :
        /\ get_monitor_count(de, out) <= MaxCount
        /\ monitor_count' = get_monitor_count(de, out)
    /\ queries' = IF MonitorQueryCommand(de) = None THEN queries
                  ELSE Append(queries, [cmd |-> MonitorQueryCommand(de),
                                        what |-> "desktops().length"])
    /\ pc' = "probe_vds"
    /\ UNCHANGED <<mode, random, photos, de, vd_count, effective_mode,
                   assignments, planned, i, calls, log, result, args, ret>>

\* let vd_count = get_virtual_desktop_count(de);
ProbeVirtualDesktops ==
    /\ pc = "probe_vds"
    /\ UNCHANGED <<found, reports, file, wallpapers, dir, net, sys, stats>>
    /\ \E out \in QueryOutcomes :
        /\ get_virtual_desktop_count(de, out) <= MaxCount
        /\ vd_count' = get_virtual_desktop_count(de, out)
    /\ queries' = IF VdQueryCommand(de) = None THEN queries
                  ELSE Append(queries, [cmd |-> VdQueryCommand(de),
                                        what |-> "VirtualDesktopManager.count"])
    /\ pc' = "report"
    /\ UNCHANGED <<mode, random, photos, de, monitor_count, effective_mode,
                   assignments, planned, i, calls, log, result, args, ret>>

\* match de { ..., Unknown => return Err(PhotoError::Wallpaper(..)) }
ReportEnvironment ==
    /\ pc = "report"
    /\ UNCHANGED <<found, reports, file, wallpapers, dir, net, sys, stats>>
    /\ IF Supported(de)
       THEN pc' = "plan" /\ UNCHANGED result
       ELSE pc' = "done" /\ result' = "Err(Wallpaper)"
    /\ UNCHANGED <<mode, random, photos, de, monitor_count, vd_count,
                   effective_mode, assignments, planned, i, calls, queries, log,
                   args, ret>>

\* effective_mode, build_assignments and the listing of the plan
Plan ==
    /\ pc = "plan"
    /\ UNCHANGED <<found, reports, file, wallpapers, dir, net, sys, stats>>
    /\ effective_mode' = EffectiveMode(de, mode)
    /\ planned' = TRUE
    /\ i' = 0
    /\ IF BuildPanics(effective_mode', photos, monitor_count, vd_count)
       THEN /\ result' = "panic"
            /\ pc' = "done"
            /\ UNCHANGED assignments
       ELSE /\ assignments' = build_assignments(effective_mode', photos,
                                                monitor_count, vd_count)
            /\ pc' = IF de \in Batch /\ assignments' = <<>>
                     THEN "finish" ELSE "apply"
            /\ UNCHANGED result
    /\ UNCHANGED <<mode, random, photos, de, monitor_count, vd_count, calls,
                   queries, log, args, ret>>

\* apply_kde_plasma6_wallpapers, Monitors and Both: one loop body
ApplyPlasma6PerAssignment ==
    /\ pc = "apply" /\ de = "KdePlasma6"
    /\ effective_mode \in {"Monitors", "Both"}
    /\ i < Len(assignments)
    /\ IF effective_mode = "Both" /\ monitor_count = 0
       THEN /\ result' = "panic"
            /\ pc' = "done"
            /\ UNCHANGED <<i, calls, log, reports>>
       ELSE \E outcome \in ApplyOutcomes :
            LET a == Current(assignments, i)
                mon_idx == MonitorIdx(effective_mode, i, monitor_count)
            IN  /\ calls' = Append(calls, ApplyCall("set_wallpaper_qdbus6", i,
                                                    mon_idx, a.photo_path, outcome))
                /\ log' = IF outcome = "Ok" THEN Append(log, SetMessage(a)) ELSE log
                /\ reports' = Append(reports, Report(i, outcome))
                /\ i' = i + 1
                /\ pc' = AfterApply(outcome, i, Len(assignments))
                /\ UNCHANGED result
    /\ UNCHANGED <<mode, random, photos, de, monitor_count, vd_count,
                   effective_mode, assignments, planned, queries, args, ret,
                   found, file, dir, net, sys, stats>>
    /\ wallpapers' = Painted(wallpapers, SubSeq(calls', Len(calls) + 1, Len(calls')))

\* apply_kde_plasma6_wallpapers, VirtualDesktops: one body of the outer loop,
\* the photo set on every monitor with the results discarded, then the log
ApplyPlasma6VirtualDesktop ==
    /\ pc = "apply" /\ de = "KdePlasma6"
    /\ effective_mode = "VirtualDesktops"
    /\ i < Len(assignments)
    /\ \E outcomes \in [1..monitor_count -> ApplyOutcomes] :
        LET a == Current(assignments, i) IN
        /\ calls' = calls \o AllMonitorsCalls(i, a, monitor_count, outcomes)
        /\ log' = Append(log, SetMessage(a))
    /\ reports' = Append(reports, Report(i, "Ok"))
    /\ i' = i + 1
    /\ pc' = AfterApply("Ok", i, Len(assignments))
    /\ UNCHANGED <<mode, random, photos, de, monitor_count, vd_count,
                   effective_mode, assignments, planned, queries, result, args, ret,
                   found, file, dir, net, sys, stats>>
    /\ wallpapers' = Painted(wallpapers, SubSeq(calls', Len(calls) + 1, Len(calls')))

\* apply_kde_plasma5_wallpapers: one loop body
ApplyPlasma5 ==
    /\ pc = "apply" /\ de = "KdePlasma5"
    /\ i < Len(assignments)
    /\ \E outcome \in ApplyOutcomes :
        LET a == Current(assignments, i) IN
        /\ calls' = Append(calls, ApplyCall("set_wallpaper_qdbus", i, i,
                                            a.photo_path, outcome))
        /\ log' = IF outcome = "Ok" THEN Append(log, SetMessage(a)) ELSE log
        /\ reports' = Append(reports, Report(i, outcome))
        /\ pc' = AfterApply(outcome, i, Len(assignments))
    /\ i' = i + 1
    /\ UNCHANGED <<mode, random, photos, de, monitor_count, vd_count,
                   effective_mode, assignments, planned, queries, result, args, ret,
                   found, file, dir, net, sys, stats>>
    /\ wallpapers' = Painted(wallpapers, SubSeq(calls', Len(calls) + 1, Len(calls')))

\* the set_wallpaper_* function of a single-wallpaper environment
SingleTool(d) ==
    CASE d = "PlasmaFallback" -> "set_wallpaper_plasma_apply"
      [] d = "Gnome" -> "set_wallpaper_gnome"
      [] d = "Feh" -> "set_wallpaper_feh"

\* set_wallpaper_gnome sets picture-uri, then picture-uri-dark, and returns at
\* the first command that fails; the other tools run one command
SingleOutcome(d, first, second) ==
    IF d = "Gnome" /\ first = "Ok" THEN second ELSE first

\* the PlasmaFallback, Gnome and Feh arms: assignments.first() only; the
\* Unknown arm is unreachable!()
ApplySingle ==
    /\ pc = "apply" /\ de \notin Batch
    /\ IF de = "Unknown"
       THEN /\ result' = "panic"
            /\ pc' = "done"
            /\ UNCHANGED <<i, calls, log, reports>>
       ELSE /\ IF assignments = <<>>
               THEN UNCHANGED <<i, calls, log, reports>>
               ELSE \E first, second \in ApplyOutcomes :
                    LET a == assignments[1]
                        outcome == SingleOutcome(de, first, second)
                    IN  /\ calls' = Append(calls, ApplyCall(SingleTool(de), 0, -1,
                                                            a.photo_path, outcome))
                        /\ log' = IF outcome = "Ok"
                                  THEN Append(log, "Set wallpaper to: "
                                                      \o PathDisplay(a.photo_path))
                                  ELSE log
                        /\ reports' = Append(reports, Report(0, outcome))
                        /\ i' = 1
            /\ pc' = "finish"
            /\ UNCHANGED result
    /\ UNCHANGED <<mode, random, photos, de, monitor_count, vd_count,
                   effective_mode, assignments, planned, queries, args, ret,
                   found, file, dir, net, sys, stats>>
    /\ wallpapers' = Painted(wallpapers, SubSeq(calls', Len(calls) + 1, Len(calls')))

\* write_log("Wallpaper setting completed"); Ok(())
Finish ==
    /\ pc = "finish"
    /\ UNCHANGED <<found, reports, file, wallpapers, dir, net, sys, stats>>
    /\ log' = Append(log, "Wallpaper setting completed")
    /\ result' = "Ok"
    /\ pc' = "done"
    /\ UNCHANGED <<mode, random, photos, de, monitor_count, vd_count,
                   effective_mode, assignments, planned, i, calls, queries,
                   args, ret>>

Next ==
    \/ EnsureLogDir
    \/ FindPhotos
    \/ SelectPool
    \/ Detect
    \/ ProbeMonitors
    \/ ProbeVirtualDesktops
    \/ ReportEnvironment
    \/ Plan
    \/ ApplyPlasma6PerAssignment
    \/ ApplyPlasma6VirtualDesktop
    \/ ApplyPlasma5
    \/ ApplySingle
    \/ Finish

Spec == Init /\ [][Next]_vars

\* ------------------------------------------------------- main: the Set command
\* the photo directory before the command has looked at it
Unseen == [kind |-> "unseen"]

SetInit ==
    /\ pc = "start"
    /\ mode \in WallpaperMode
    /\ random \in BOOLEAN
    /\ photos = <<>> /\ de = None
    /\ monitor_count = 0 /\ vd_count = 0 /\ effective_mode = None
    /\ assignments = <<>> /\ planned = FALSE /\ i = 0
    /\ calls = <<>> /\ queries = <<>> /\ log = <<>> /\ result = None
    /\ found = Pending /\ reports = <<>> /\ file = NoFile
    /\ wallpapers = {} /\ dir = Unseen /\ net = <<>> /\ sys = <<>> /\ stats = NoStats
    /\ args \in [fn : {"main"}, path : {Nothing, Some("custom")}, lock_screen : BOOLEAN]
    /\ ret = Pending

\* set_wallpapers_with_options(mode.into(), path, random)
SetFindPhotos == FindPhotosIn(~args.path.some)

\* format!("file://{}", newest_photo.display())
ImageUrl(photo) == <<"file://", photo>>

\* faulty variant: the first photo of the pool of the desktop
FirstOfPool(listing, pool) == pool[1]

\* photos.first() of find_all_photos()
NewestPhoto(listing, pool) == listing[1]

\* the kwriteconfig call on kscreenlockerrc, key Image
WriteLockImage(tool, image_url, ok) ==
    [cmd |-> <<tool, "--file", "kscreenlockerrc", "--key", "Image">>,
     image |-> image_url, ok |-> ok]

setRest == <<mode, random, photos, de, monitor_count, vd_count, effective_mode,
             assignments, planned, i, calls, queries, log, result, found,
             reports, file, wallpapers, net, stats, args>>

\* set_wallpapers_with_options(..)?; if lock_screen { .. } is not entered
MainReturn ==
    /\ pc = "done"
    /\ result # "Ok" \/ ~args.lock_screen
    /\ ret' = Returned(result)
    /\ pc' = "exited"
    /\ UNCHANGED <<dir, sys, setRest>>

\* if lock_screen { set_lock_screen_wallpaper()?; }
SetLockScreen ==
    /\ pc = "done"
    /\ result = "Ok" /\ args.lock_screen
    /\ \E fs \in IF args.path.some THEN FsStates ELSE {dir} :
         /\ dir' = fs
         /\ LET listing == find_photos_in_path(fs)
            IN  IF ~listing.ok
                THEN ret' = Returned(listing) /\ UNCHANGED sys
                ELSE IF listing.value = <<>>
                THEN ret' = Returned(Err("Command")) /\ UNCHANGED sys
                ELSE \E tool \in {"kwriteconfig6", "kwriteconfig5", None} :
                       LET which6 == Ran(<<"which", "kwriteconfig6">>, tool = "kwriteconfig6")
                           which5 == Ran(<<"which", "kwriteconfig5">>, tool = "kwriteconfig5")
                           asked == IF tool = "kwriteconfig6" THEN <<which6>>
                                    ELSE <<which6, which5>>
                           url == ImageUrl(NewestPhoto(listing.value, photos))
                       IN  IF tool = None
                           THEN /\ sys' = sys \o asked
                                /\ ret' = Returned(Err("Command"))
                           ELSE \E ok \in BOOLEAN :
                                  /\ sys' = sys \o asked \o <<WriteLockImage(tool, url, ok)>>
                                  /\ ret' = Returned(IF ok THEN Ok("unit")
                                                     ELSE Err("Command"))
    /\ pc' = "locked"
    /\ UNCHANGED setRest

SetNext ==
    \/ EnsureLogDir
    \/ SetFindPhotos
    \/ SelectPool
    \/ Detect
    \/ ProbeMonitors
    \/ ProbeVirtualDesktops
    \/ ReportEnvironment
    \/ Plan
    \/ ApplyPlasma6PerAssignment
    \/ ApplyPlasma6VirtualDesktop
    \/ ApplyPlasma5
    \/ ApplySingle
    \/ Finish
    \/ MainReturn
    \/ SetLockScreen

SetSpec == SetInit /\ [][SetNext]_vars

\* ------------------------------------------------ claims: build_assignments
PlanDone == args.fn = "build_assignments" /\ ret.st # "pending"

\* C1: for a non-empty pool of length n and monitor_count m > 0,
\* build_assignments(Monitors, pool, m, any vd_count) returns exactly m
\* assignments; position i carries pool[i mod n] and the label "Monitor {i+1}",
\* and is_newest is true at position 0 and nowhere else.
C1_MonitorsPlan ==
    (PlanDone /\ args.mode = "Monitors" /\ Len(args.photos) > 0
        /\ args.monitor_count > 0) =>
    /\ ret.st = "returned"
    /\ Len(ret.value) = args.monitor_count
    /\ \A k \in 0..(args.monitor_count - 1) :
        /\ ret.value[k + 1].photo_path = args.photos[(k % Len(args.photos)) + 1]
        /\ ret.value[k + 1].location = "Monitor " \o ToString(k + 1)
    /\ {k \in 1..Len(ret.value) : ret.value[k].is_newest} = {1}

\* a Monitors plan with more monitors than photos (the pool wraps around) and
\* a vd_count different from the monitor count
C1_Witness ==
    /\ PlanDone /\ ret.st = "returned" /\ args.mode = "Monitors"
    /\ Len(args.photos) = 2 /\ args.photos[1] # args.photos[2]
    /\ args.monitor_count = 3 /\ args.vd_count = 2
    /\ ret.value[3].photo_path = args.photos[1]

\* C2: for a non-empty pool of length n and m > 0, v > 0,
\* build_assignments(Both, pool, m, v) returns exactly m*v assignments, the
\* virtual desktop varying slower than the monitor; position k carries
\* pool[k mod n] and the label "Monitor {(k mod m)+1}, VD {(k div m)+1}", and
\* is_newest is true only at k = 0.
C2_BothPlan ==
    (PlanDone /\ args.mode = "Both" /\ Len(args.photos) > 0
        /\ args.monitor_count > 0 /\ args.vd_count > 0) =>
    /\ ret.st = "returned"
    /\ Len(ret.value) = args.monitor_count * args.vd_count
    /\ \A k \in 0..(args.monitor_count * args.vd_count - 1) :
        /\ ret.value[k + 1].photo_path = args.photos[(k % Len(args.photos)) + 1]
        /\ ret.value[k + 1].location =
              "Monitor " \o ToString((k % args.monitor_count) + 1)
                  \o ", VD " \o ToString((k \div args.monitor_count) + 1)
        /\ ret.value[k + 1].is_newest = (k = 0)

\* a Both plan over 2 monitors and 3 virtual desktops from 3 distinct photos,
\* so the pool wraps around in the middle of a virtual desktop
C2_Witness ==
    /\ PlanDone /\ ret.st = "returned" /\ args.mode = "Both"
    /\ args.monitor_count = 2 /\ args.vd_count = 3
    /\ Len(args.photos) = 3 /\ args.photos[1] # args.photos[2]
    /\ Len(ret.value) = 6
    /\ ret.value[4].location = "Monitor 2, VD 2"
    /\ ret.value[4].photo_path = args.photos[1]

\* C3: for a non-empty pool of length n and vd_count v > 0,
\* build_assignments(VirtualDesktops, pool, any monitor_count, v) returns
\* exactly v assignments whatever monitor_count is; position i carries
\* pool[i mod n] and the label "Virtual Desktop {i+1}", and is_newest is true
\* only at i = 0.
C3_VirtualDesktopsPlan ==
    (PlanDone /\ args.mode = "VirtualDesktops" /\ Len(args.photos) > 0
        /\ args.vd_count > 0) =>
    /\ ret.st = "returned"
    /\ Len(ret.value) = args.vd_count
    /\ \A k \in 0..(args.vd_count - 1) :
        /\ ret.value[k + 1].photo_path = args.photos[(k % Len(args.photos)) + 1]
        /\ ret.value[k + 1].location = "Virtual Desktop " \o ToString(k + 1)
        /\ ret.value[k + 1].is_newest = (k = 0)

\* a VirtualDesktops plan with more virtual desktops than photos and with a
\* monitor count of 0, which does not change the plan
C3_Witness ==
    /\ PlanDone /\ ret.st = "returned" /\ args.mode = "VirtualDesktops"
    /\ Len(args.photos) = 2 /\ args.photos[1] # args.photos[2]
    /\ args.vd_count = 3 /\ args.monitor_count = 0
    /\ Len(ret.value) = 3 /\ ret.value[3].photo_path = args.photos[1]

\* ------------------------------------- claims: detection and the probes
DetectDone == args.fn = "detect_desktop_environment" /\ ret.st # "pending"

\* C5: detect_desktop_environment returns exactly one kind for every combination
\* of its six inputs, the first match winning in the order: qdbus6 and plasmashell
\* running, KdePlasma6; qdbus and plasmashell running, KdePlasma5;
\* plasma-apply-wallpaperimage, PlasmaFallback; gsettings, Gnome; feh, Feh;
\* otherwise Unknown.  It never fails, and neither KdePlasma6 nor KdePlasma5 is
\* returned when plasmashell is not running.
C5_DetectFirstMatch ==
    DetectDone =>
    LET has(c) == c \in args.host.commands
        shell == "plasmashell" \in args.host.processes
        k == ret.value
    IN  /\ ret.st = "returned"
        /\ k \in DesktopEnvironment
        /\ (k = "KdePlasma6") = (has("qdbus6") /\ shell)
        /\ (k = "KdePlasma5") = (~has("qdbus6") /\ has("qdbus") /\ shell)
        /\ (k = "PlasmaFallback") =
              (~(shell /\ (has("qdbus6") \/ has("qdbus")))
                  /\ has("plasma-apply-wallpaperimage"))
        /\ (k = "Gnome") =
              (~(shell /\ (has("qdbus6") \/ has("qdbus")))
                  /\ ~has("plasma-apply-wallpaperimage") /\ has("gsettings"))
        /\ (k = "Feh") =
              (~(shell /\ (has("qdbus6") \/ has("qdbus")))
                  /\ ~has("plasma-apply-wallpaperimage") /\ ~has("gsettings")
                  /\ has("feh"))
        /\ (k = "Unknown") =
              (~(shell /\ (has("qdbus6") \/ has("qdbus")))
                  /\ ~has("plasma-apply-wallpaperimage") /\ ~has("gsettings")
                  /\ ~has("feh"))
        /\ (~shell => k \notin {"KdePlasma6", "KdePlasma5"})

\* qdbus6, qdbus, gsettings and feh are installed but plasmashell is not
\* running: the two Plasma kinds are passed over and Gnome wins over Feh
C5_Witness ==
    /\ DetectDone
    /\ args.host.commands = {"qdbus6", "qdbus", "gsettings", "feh"}
    /\ args.host.processes = {}
    /\ ret.value = "Gnome"

CountDone ==
    args.fn \in {"get_monitor_count", "get_virtual_desktop_count"}
        /\ ret.st # "pending"

\* C6: get_monitor_count and get_virtual_desktop_count return a positive
\* integer (never 0) for every kind and every outcome or output text of the
\* external count query.
C6_CountsPositive == CountDone => (ret.st = "returned" /\ ret.value > 0)

\* a text that is not optional whitespace, an optional sign, one or more
\* digits, optional whitespace
Numeric(t) ==
    \E a \in 1..Len(t) : \E b \in a..Len(t) :
        /\ \A k \in a..b : t[k] \in Digits
        /\ \A k \in (b + 1)..Len(t) : t[k] \in Whitespace
        /\ \A k \in 1..(a - 1) :
              t[k] \in Whitespace \/ (k = a - 1 /\ t[k] \in {"+", "-"})

QueryFailed(out) ==
    out.kind \in {"spawn_error", "non_utf8"}
        \/ (out.kind = "text" /\ ~Numeric(out.text))

\* C7: the probes default to 1 and never raise an error: get_monitor_count
\* returns 1 without an external call for every kind other than
\* KdePlasma6/KdePlasma5, get_virtual_desktop_count returns 1 without an
\* external call for every kind other than KdePlasma6, and when the query is
\* attempted, a failure to invoke it, non-UTF8 output or non-numeric output
\* yields 1.
C7_ProbesDefaultToOne ==
    CountDone =>
    LET querying == IF args.fn = "get_monitor_count"
                    THEN {"KdePlasma6", "KdePlasma5"} ELSE {"KdePlasma6"}
    IN  /\ ret.st = "returned"
        /\ (args.de \notin querying => (ret.value = 1 /\ ret.query = None))
        /\ (args.de \in querying =>
              /\ ret.query = (IF args.de = "KdePlasma6" THEN "qdbus6" ELSE "qdbus")
              /\ (QueryFailed(args.out) => ret.value = 1))

\* the monitor query on KdePlasma5 prints "2a" and a newline: not a number, 1
C7_Witness ==
    /\ CountDone /\ args.fn = "get_monitor_count" /\ args.de = "KdePlasma5"
    /\ args.out.kind = "text" /\ args.out.text = <<"2", "a", "\n">>
    /\ ret.query = "qdbus" /\ ret.value = 1

\* ------------------------------- claims: set_wallpapers_with_options
\* C4: the effective mode is the requested mode, whatever it is, if and only
\* if the detected environment is KdePlasma6; for every other environment it is
\* Monitors for every requested mode.
C4_EffectiveMode ==
    planned =>
    /\ (de = "KdePlasma6" => effective_mode = mode)
    /\ (de # "KdePlasma6" => effective_mode = "Monitors")
    /\ ((\A requested \in WallpaperMode : EffectiveMode(de, requested) = requested)
            <=> de = "KdePlasma6")

\* Both requested on KdePlasma5: planned with the mode downgraded to Monitors
C4_Witness ==
    /\ planned /\ de = "KdePlasma5" /\ mode = "Both"
    /\ effective_mode = "Monitors"

\* the number of set_wallpaper_* invocations one assignment of a batch is due
CallsDue ==
    IF de = "KdePlasma6" /\ effective_mode = "VirtualDesktops"
    THEN monitor_count ELSE 1

CallsFor(pos) == {k \in 1..Len(calls) : calls[k].pos = pos}

\* C8: in a batch (KdePlasma6 in any mode, KdePlasma5) a failed apply call does
\* not stop the batch: when the loop is over, every assignment of the plan has
\* had its apply calls, whatever subset of the earlier calls failed.
C8_BatchNotStopped ==
    (planned /\ de \in Batch /\ pc \in {"finish", "done"}) =>
    /\ result # "panic"
    /\ \A pos \in 0..(Len(assignments) - 1) :
          Cardinality(CallsFor(pos)) = CallsDue

\* a Both batch of four assignments whose first two calls fail, one each way,
\* and whose last two calls are still issued
C8_Witness ==
    /\ pc = "done" /\ de = "KdePlasma6" /\ effective_mode = "Both"
    /\ Len(assignments) = 4 /\ Len(calls) = 4
    /\ calls[1].outcome = "Wallpaper" /\ calls[2].outcome = "Command"
    /\ calls[4].pos = 3 /\ calls[4].outcome = "Ok"

\* C9: set_wallpapers_with_options returns an error only for an Unknown
\* environment or an empty photo pool; every other run returns Ok.
C9_OnlyFatalErrors ==
    pc = "done" =>
    \/ result = "Ok"
    \/ result = "Err(Wallpaper)" /\ de = "Unknown"
    \/ result = "Err(NoPhotos)" /\ photos = <<>>

\* C10: when the classifier returns Unknown the run ends with a Wallpaper
\* error before build_assignments is called and before any apply call; the
\* apply dispatch is not reached with kind Unknown.
C10_UnknownStopsBeforePlan ==
    de = "Unknown" =>
    /\ ~planned /\ assignments = <<>> /\ calls = <<>>
    /\ pc \in {"probe_monitors", "probe_vds", "report", "done"}
    /\ result \in {None, "Err(Wallpaper)"}
    /\ (pc = "done" => result = "Err(Wallpaper)")

\* two photos found, no tool on the host: the run has ended in the error
C10_Witness ==
    /\ de = "Unknown" /\ pc = "done" /\ result = "Err(Wallpaper)"
    /\ Len(photos) = 2 /\ queries = <<>>

\* find_photos_in_path has returned, with a list or with an error
FoundOk == found # Pending /\ found.ok

FoundErr(e) == found # Pending /\ ~found.ok /\ found.error = e

\* C11: when photo discovery finds no photo the run fails with NoPhotos before
\* planning and before any apply call; build_assignments is therefore only
\* called with a non-empty pool and its index computation has no zero divisor.
C11_NoPhotosBeforePlan ==
    /\ FoundErr("NoPhotos") =>
          /\ pc = "done" /\ result = "Err(NoPhotos)"
          /\ ~planned /\ assignments = <<>> /\ calls = <<>>
    /\ planned => (FoundOk /\ Len(photos) > 0 /\ result # "panic")

\* discovery found no photo and the run has ended
C11_Witness ==
    /\ FoundErr("NoPhotos") /\ pc = "done" /\ result = "Err(NoPhotos)"
    /\ Len(log) = 1

\* the log record of the target of an apply call
TargetRecord(c) ==
    IF c.fn \in {"set_wallpaper_qdbus6", "set_wallpaper_qdbus"}
    THEN SetMessage(assignments[c.pos + 1])
    ELSE "Set wallpaper to: " \o PathDisplay(c.photo_path)

LogRecords == {log[k] : k \in 1..Len(log)}

\* C12: for every apply operation, whether it succeeds or fails, a record for
\* that target is appended to the wallpaper log.
C12_EveryApplyLogged ==
    \A k \in 1..Len(calls) : TargetRecord(calls[k]) \in LogRecords

\* C13: every failed apply call is reported as a failure for its target: an
\* assignment is reported as set only if all the apply calls issued for it
\* succeeded, and a failed call yields a failure indicator with the
\* diagnostic of the error.
C13_FailuresReported ==
    /\ \A r \in 1..Len(reports) :
          reports[r].ok =>
              \A k \in 1..Len(calls) :
                  calls[k].pos = reports[r].pos => calls[k].outcome = "Ok"
    /\ \A k \in 1..Len(calls) :
          calls[k].outcome # "Ok" =>
              \E r \in 1..Len(reports) :
                  /\ reports[r].pos = calls[k].pos
                  /\ ~reports[r].ok
                  /\ reports[r].diag = calls[k].outcome

\* C14: on KdePlasma6 in VirtualDesktops mode with v assignments and m
\* monitors, exactly m apply calls are issued per assignment, one for each
\* monitor index 0..m-1 in ascending order, all with that assignment's photo:
\* v*m calls in all.
C14_VirtualDesktopCalls ==
    (planned /\ de = "KdePlasma6" /\ effective_mode = "VirtualDesktops") =>
    /\ Len(assignments) = vd_count
    /\ Len(calls) = i * monitor_count
    /\ \A k \in 0..(Len(calls) - 1) :
        /\ calls[k + 1].fn = "set_wallpaper_qdbus6"
        /\ calls[k + 1].pos = k \div monitor_count
        /\ calls[k + 1].monitor_idx = k % monitor_count
        /\ calls[k + 1].photo_path =
              assignments[(k \div monitor_count) + 1].photo_path
    /\ (pc \in {"finish", "done"} => Len(calls) = vd_count * monitor_count)

\* two virtual desktops with different photos on two monitors: four calls, the
\* second of them failed
C14_Witness ==
    /\ pc = "done" /\ de = "KdePlasma6" /\ effective_mode = "VirtualDesktops"
    /\ vd_count = 2 /\ monitor_count = 2 /\ Len(calls) = 4
    /\ assignments[1].photo_path # assignments[2].photo_path
    /\ calls[2].outcome = "Wallpaper"
    /\ calls[3].monitor_idx = 0 /\ calls[3].photo_path = assignments[2].photo_path

\* C15: on KdePlasma6 in Monitors or Both mode exactly one apply call is issued
\* per assignment and none is repeated after a failure; the call for position
\* i targets monitor i in Monitors mode and i mod monitor_count in Both mode,
\* which in Both mode is the monitor the label of the assignment names.
C15_OneCallPerAssignment ==
    (planned /\ de = "KdePlasma6" /\ effective_mode \in {"Monitors", "Both"}) =>
    /\ result # "panic"
    /\ Len(calls) = i
    /\ \A k \in 0..(Len(calls) - 1) :
        /\ calls[k + 1].pos = k
        /\ calls[k + 1].photo_path = assignments[k + 1].photo_path
        /\ (effective_mode = "Monitors" => calls[k + 1].monitor_idx = k)
        /\ (effective_mode = "Both" =>
              /\ calls[k + 1].monitor_idx = k % monitor_count
              /\ assignments[k + 1].location =
                    "Monitor " \o ToString(calls[k + 1].monitor_idx + 1)
                        \o ", VD " \o ToString((k \div monitor_count) + 1))
    /\ (pc \in {"finish", "done"} => Len(calls) = Len(assignments))

\* a Both batch over 2 monitors and 2 virtual desktops: the first call failed,
\* the third call goes to monitor 0 again
C15_Witness ==
    /\ pc = "done" /\ de = "KdePlasma6" /\ effective_mode = "Both"
    /\ monitor_count = 2 /\ vd_count = 2 /\ Len(calls) = 4
    /\ calls[1].outcome = "Command"
    /\ calls[3].monitor_idx = 0 /\ calls[4].monitor_idx = 1

SingleKinds == {"PlasmaFallback", "Gnome", "Feh"}

\* C16: for PlasmaFallback, Gnome and Feh, whatever mode was requested, the
\* plan holds exactly one assignment (monitor count 1, mode Monitors) and
\* exactly one apply call is issued, with assignments[0], the photo at pool
\* index 0.
C16_SingleWallpaper ==
    (planned /\ de \in SingleKinds) =>
    /\ monitor_count = 1 /\ effective_mode = "Monitors"
    /\ Len(assignments) = 1
    /\ assignments[1].photo_path = photos[1]
    /\ (pc = "apply" => calls = <<>>)
    /\ (pc \in {"finish", "done"} =>
          /\ Len(calls) = 1
          /\ calls[1].fn = SingleTool(de)
          /\ calls[1].pos = 0
          /\ calls[1].photo_path = photos[1])

\* Both requested on Gnome with two photos: one call, with the first photo
C16_Witness ==
    /\ pc = "done" /\ de = "Gnome" /\ mode = "Both" /\ Len(photos) = 2
    /\ Len(calls) = 1 /\ calls[1].fn = "set_wallpaper_gnome"
    /\ calls[1].photo_path = photos[1]

\* C17: apply calls are issued in the order of the plan: the calls for
\* position i all precede every call for position i+1, every call carries the
\* photo of its position, and no position is applied out of order or skipped.
C17_PlanOrder ==
    planned =>
    /\ \A a, b \in 1..Len(calls) : a < b => calls[a].pos <= calls[b].pos
    /\ \A k \in 1..Len(calls) :
        /\ calls[k].pos < i
        /\ calls[k].photo_path = assignments[calls[k].pos + 1].photo_path
    /\ (de \in Batch /\ CallsDue > 0) =>
          {calls[k].pos : k \in 1..Len(calls)} = 0..(i - 1)
    /\ (de \in Batch /\ pc \in {"finish", "done"}) => i = Len(assignments)

\* KdePlasma5 with two monitors and two photos: the newest photo first
C17_Witness ==
    /\ pc = "done" /\ de = "KdePlasma5" /\ Len(calls) = 2
    /\ calls[1].pos = 0 /\ calls[2].pos = 1
    /\ calls[1].photo_path # calls[2].photo_path
    /\ calls[1].photo_path = photos[1]

Occurrences(seq, x) == Cardinality({k \in 1..Len(seq) : seq[k] = x})

\* C18: the pool handed to the planner is a permutation of the discovered
\* list; when random is false it is the discovered list in its order, which
\* find_photos_in_path produces in descending path order.
C18_PoolIsDiscoveredList ==
    FoundOk =>
    /\ Len(photos) = Len(found.value)
    /\ \A x \in Photos : Occurrences(photos, x) = Occurrences(found.value, x)
    /\ (~random => photos = found.value)
    /\ \A k \in 1..(Len(found.value) - 1) : found.value[k] > found.value[k + 1]

\* a shuffled pool of two photos that differs from the discovered order
C18_Witness ==
    /\ planned /\ random /\ FoundOk /\ Len(photos) = 2
    /\ photos # found.value /\ found.value[1] > found.value[2]

\* C19: on KdePlasma5, for every requested mode, the effective mode is
\* Monitors, the plan has monitor_count assignments and one legacy (qdbus)
\* apply call is issued per assignment, the call for position i targeting
\* monitor i.
C19_Plasma5 ==
    (planned /\ de = "KdePlasma5") =>
    /\ effective_mode = "Monitors"
    /\ Len(assignments) = monitor_count
    /\ Len(calls) = i
    /\ \A k \in 0..(Len(calls) - 1) :
        /\ calls[k + 1].fn = "set_wallpaper_qdbus"
        /\ calls[k + 1].pos = k
        /\ calls[k + 1].monitor_idx = k
    /\ (pc \in {"finish", "done"} => Len(calls) = monitor_count)

\* VirtualDesktops requested on KdePlasma5 with two monitors: two qdbus calls
C19_Witness ==
    /\ pc = "done" /\ de = "KdePlasma5" /\ mode = "VirtualDesktops"
    /\ monitor_count = 2 /\ Len(calls) = 2
    /\ calls[2].fn = "set_wallpaper_qdbus" /\ calls[2].monitor_idx = 1

IsPrefix(a, b) == Len(a) <= Len(b) /\ SubSeq(b, 1, Len(a)) = a

Newlines(bytes) == Cardinality({k \in 1..Len(bytes) : bytes[k] = "\n"})

NoNewline(message) == \A k \in 1..Len(message) : message[k] # "\n"

\* the call just made wrote its whole line
Written == log' = Append(log, args'.message)

\* what one call of write_log does to the file
C20_Append ==
    /\ IsPrefix(file.bytes, file'.bytes)
    /\ (file.exists => file'.exists)
    /\ ret' = Returned(None)
    /\ (~args'.io.opened => file' = file)
    /\ Written =>
          file'.bytes = file.bytes \o LogMessage(args'.message)
    /\ (Written /\ NoNewline(args'.message)) =>
          /\ Newlines(file'.bytes) = Newlines(file.bytes) + 1
          /\ file'.bytes[Len(file'.bytes)] = "\n"
          /\ \A k \in (Len(file.bytes) + 1)..(Len(file'.bytes) - 1) :
                file'.bytes[k] # "\n"

\* the file after calls that all wrote a message without newline
C20_Lines ==
    /\ (i > 0 => ret = Returned(None))
    /\ (Len(log) = i /\ \A k \in 1..Len(log) : NoNewline(log[k])) =>
          /\ Len(Lines(file.bytes)) = i
          /\ \A k \in 1..i :
                Lines(file.bytes)[k] = <<"[">> \o Timestamp \o <<"]", " ">> \o log[k]

\* C20: write_log is append-only and best-effort: a call with a message
\* without newline appends exactly one line after the content of the file and
\* leaves what was there unchanged, so that k calls on a fresh path leave
\* exactly k lines in call order; when the file cannot be opened or written
\* the call returns normally.
C20_WriteLogAppends == [](C20_Lines) /\ [][C20_Append]_vars

\* two calls on a fresh path wrote two different lines
C20_Witness ==
    /\ args.fn = "write_log" /\ i = 2 /\ Len(log) = 2
    /\ log[1] = <<"a">> /\ log[2] = <<>>
    /\ Len(Lines(file.bytes)) = 2

SanitizeDone == args.fn = "sanitize_title" /\ ret.st = "returned"

Contains(s, c) == \E k \in 1..Len(s) : s[k] = c

\* C21: for every title, sanitize_title returns a string without '/', ' ',
\* ':' and '|' of at most 100 characters; for a title of at least 100
\* characters none of which is removed (no ':'), it has exactly 100 characters.
C21_SanitizedTitle ==
    SanitizeDone =>
    /\ \A c \in {"/", " ", ":", "|"} : ~Contains(ret.value, c)
    /\ Len(ret.value) <= 100
    /\ (Len(args.title) >= 100 /\ ~Contains(args.title, ":")) =>
          Len(ret.value) = 100

\* a title of 101 slashes and a bar is cut to 100 underscores
C21_Witness ==
    /\ SanitizeDone
    /\ args.title = Repeat("/", 101) \o <<"|">>
    /\ ret.value = Repeat("_", 100)

IntervalDone == args.fn = "is_valid_interval" /\ ret.st = "returned"

\* a number: one or more digits
IsNumber(s) == s # <<>> /\ \A k \in 1..Len(s) : s[k] \in {"1", "3"}

\* a number followed by the unit u
IsPart(s, u) == s # <<>> /\ s[Len(s)] = u /\ IsNumber(SubSeq(s, 1, Len(s) - 1))

\* an optional number+h, then an optional number+m, one of them at least
HoursThenMinutes(s) ==
    \E cut \in 0..Len(s) :
        LET hours == SubSeq(s, 1, cut)
            minutes == SubSeq(s, cut + 1, Len(s))
        IN  /\ hours = <<>> \/ IsPart(hours, "h")
            /\ minutes = <<>> \/ IsPart(minutes, "m")
            /\ hours # <<>> \/ minutes # <<>>

\* C24: is_valid_interval accepts exactly the strings made of an optional
\* number followed by 'h', then an optional number followed by 'm', with at
\* least one of the two present, and rejects every other string.
C24_IntervalGrammar ==
    IntervalDone => (ret.value <=> HoursThenMinutes(args.text))

\* the images the desktop of monitor j shows
ImagesOn(j) == {r.image : r \in {x \in wallpapers : x.monitor = j}}

AllCallsOk == \A k \in 1..Len(calls) : calls[k].outcome = "Ok"

C29_NoZeroDivisor ==
    /\ result # "panic"
    /\ planned => Len(photos) > 0
    /\ (/\ pc = "apply" /\ de = "KdePlasma6" /\ effective_mode = "Both"
        /\ i < Len(assignments)) => monitor_count > 0
    /\ (/\ planned /\ de = "KdePlasma6" /\ effective_mode = "Both"
        /\ monitor_count = 0) =>
          /\ assignments = <<>> /\ calls = <<>>
          /\ pc \in {"finish", "done"}
          /\ (pc = "done" => result = "Ok")

\* Both mode with no monitor and two virtual desktops: the run ends well,
\* without a call
C29_Witness ==
    /\ pc = "done" /\ de = "KdePlasma6" /\ effective_mode = "Both"
    /\ monitor_count = 0 /\ vd_count = 2 /\ Len(photos) > 0
    /\ result = "Ok" /\ calls = <<>>

\* a file of the directory is taken for the photo of the title
HasPhoto(d, title) ==
    \E f \in d :
        /\ file_stem(f.name) = title
        /\ extension(f.name) \in {Some(<<"jpg">>), Some(<<"png">>), Some(<<"gif">>)}

\* what a call of download_natgeo_photo_of_the_day does
C22_Call ==
    /\ HasPhoto(dir, args'.title) =>
          (ret'.value = Ok(None) /\ net' = net /\ dir' = dir)
    /\ (i > 0 /\ ret.value = Ok(None) /\ args'.title = args.title) => net' = net

\* C22: download_natgeo_photo_of_the_day is idempotent with respect to an
\* existing photo: when save_dir holds a file whose stem is sanitized_title
\* and whose extension is jpg, png or gif, the call returns Ok without a
\* network request and without creating or overwriting a file; so after one
\* successful download the same call never fetches again.
C22_Idempotent == [][C22_Call]_vars

CollectionRun == args.fn = "download_collection"

Total(st) == st.downloaded + st.skipped + st.failed

FailedRecords == {k \in 1..Len(log) : log[k].msg = "Failed to download"}

\* C27: download_collection processes every photo of the collection once and
\* puts it into exactly one counter, so on return downloaded + skipped +
\* failed is the number of photos; a photo whose download fails increments
\* failed and the photos after it are still processed.
C27_EveryPhotoCounted ==
    CollectionRun =>
    /\ Total(stats) = i
    /\ stats.failed = Cardinality(FailedRecords)
    /\ i <= Len(args.photos)
    /\ (pc = "collection_done" /\ ret.value.ok) =>
          /\ i = Len(args.photos)
          /\ ret.value.value = stats
          /\ Total(ret.value.value) = Len(args.photos)
    /\ (pc = "collection_done" /\ ~ret.value.ok) => (i = 0 /\ net = <<>>)

\* the first of two photos failed, the second was downloaded
C27_Witness ==
    /\ CollectionRun /\ pc = "collection_done" /\ Len(args.photos) = 2
    /\ ret.value = Ok([downloaded |-> 1, skipped |-> 0, failed |-> 1])
    /\ Len(net) = 2
    /\ \E k \in 1..Len(log) :
          /\ log[k].msg = "Failed to download"
          /\ \E l \in (k + 1)..Len(log) : log[l].msg = "Downloaded photo"

ServiceRun == args.fn = "natgeo-wallpaper.service"

IsDownload(c) == c.cmd = <<"download">>

IsSet(c) == c.cmd[1] = "set"

IsSleep(c) == c.cmd = <<"sleep", 60>>

Downloads == {k \in 1..Len(sys) : IsDownload(sys[k])}

\* the attempts that failed: a download or a set command that did not exit
\* with 0
FailedAttempts == {k \in 1..Len(sys) : ~IsSleep(sys[k]) /\ ~sys[k].ok}

\* C23: the service unit makes at most 3 attempts; an attempt runs the
\* download command and, only if it succeeds, the set command; the service
\* exits 0 right after the first attempt in which both succeed; after a
\* failed attempt it sleeps 60 seconds before the next one; after three failed
\* attempts it exits 1.
C23_ServiceRetries ==
    ServiceRun =>
    /\ Cardinality(Downloads) <= 3
    /\ \A k \in 1..Len(sys) :
        /\ IsSet(sys[k]) =>
              /\ k > 1 /\ IsDownload(sys[k - 1]) /\ sys[k - 1].ok
              /\ sys[k].cmd = SetArgs(args)
              /\ sys[k].ok => (k = Len(sys) /\ pc = "service_exited"
                               /\ result = "exit 0")
        /\ (IsDownload(sys[k]) /\ sys[k].ok /\ k < Len(sys)) => IsSet(sys[k + 1])
        /\ (~IsSleep(sys[k]) /\ ~sys[k].ok /\ k < Len(sys)) => IsSleep(sys[k + 1])
        /\ (IsSleep(sys[k]) /\ k < Len(sys)) => IsDownload(sys[k + 1])
        /\ IsSleep(sys[k]) => (k > 1 /\ k - 1 \in FailedAttempts)
    /\ pc = "service_exited" =>
          /\ result \in {"exit 0", "exit 1"}
          /\ result = "exit 0" <=> (IsSet(sys[Len(sys)]) /\ sys[Len(sys)].ok)
          /\ result = "exit 1" <=> Cardinality(FailedAttempts) = 3
    /\ pc # "service_exited" => result = None

\* the first attempt failed in the set command, the second one succeeded
C23_Witness ==
    /\ ServiceRun /\ pc = "service_exited" /\ result = "exit 0"
    /\ args.lock_screen /\ args.path.some
    /\ Len(sys) = 5
    /\ IsSet(sys[2]) /\ ~sys[2].ok /\ IsSleep(sys[3]) /\ IsSet(sys[5])

\* the commands the step added to those run before
NewCommands == SubSeq(sys', Len(sys) + 1, Len(sys'))

UninstallStep == args'.fn = "uninstall_systemd_timer" /\ i' = i + 1

C25_Step ==
    UninstallStep =>
    /\ ret'.value.ok => dir' = {}
    /\ args'.fault = "none" => ret'.value.ok
    /\ (dir = {} /\ args'.fault # "HOME") => (ret'.value.ok /\ dir' = {})

\* C25: after uninstall_systemd_timer returns Ok neither unit file exists in
\* the user systemd directory, whatever subset of the two existed before; it
\* succeeds when nothing was installed and HOME is set; an install followed by
\* an uninstall leaves no unit file behind.
C25_UninstallRemovesUnits == [][C25_Step]_vars

HasCommand(c) == \E k \in 1..Len(sys) : sys[k] = c

\* a complete install, then an uninstall that returned Ok
C25_Witness ==
    /\ args.fn = "uninstall_systemd_timer" /\ ret = Returned(Ok("unit"))
    /\ i = 2 /\ dir = {}
    /\ HasCommand(Systemctl(<<"start", TimerName>>))
    /\ HasCommand(Systemctl(<<"stop", TimerName>>))

\* the early errors of install_systemd_timer: systemctl is not found, the
\* --time value is neither a time nor an interval, the prompt is cancelled
EarlyError(a) ==
    \/ ~a.systemctl
    \/ a.time.some /\ ~is_valid_time(a.time.value) /\ ~is_valid_interval(a.time.value)
    \/ a.systemctl /\ ~a.time.some /\ a.prompt = Err("Command")

InstallStep == args'.fn = "install_systemd_timer" /\ i' = i + 1

C26_Step ==
    (InstallStep /\ EarlyError(args')) =>
    /\ ~ret'.value.ok
    /\ dir' = dir
    /\ \A k \in 1..Len(NewCommands) :
          NewCommands[k] \notin {Systemctl(<<"daemon-reload">>),
                                 Systemctl(<<"enable", TimerName>>),
                                 Systemctl(<<"start", TimerName>>)}

\* C26: on an early error (systemctl not found, a --time value that is
\* neither a valid time nor a valid interval, the prompt cancelled)
\* install_systemd_timer returns an error, has written neither unit file and
\* has invoked none of systemctl daemon-reload, enable, start.
C26_EarlyErrorChangesNothing == [][C26_Step]_vars

\* the prompt was cancelled with the units of an earlier install in place
C26_Witness ==
    /\ args.fn = "install_systemd_timer" /\ ~args.time.some
    /\ args.systemctl /\ args.prompt = Err("Command")
    /\ ret = Returned(Err("Command"))
    /\ i = 2 /\ exists(dir, ServiceName) /\ exists(dir, TimerName)

SetRun == args.fn = "main"

\* the kwriteconfig calls among the commands run
LockWrites == {k \in 1..Len(sys) : sys[k].cmd[1] \in {"kwriteconfig6", "kwriteconfig5"}}

\* C30: in the Set command with --lock-screen the lock-screen step runs only
\* after set_wallpapers_with_options returned Ok; the image it sets is the
\* first photo, in descending path order, of the default photo directory,
\* whatever --path and --random are; without a custom path and without random
\* selection it is the primary photo of the desktop.
C30_LockScreenImage ==
    SetRun =>
    /\ (pc = "locked" \/ sys # <<>>) => (result = "Ok" /\ args.lock_screen)
    /\ pc = "exited" => (result # "Ok" \/ ~args.lock_screen)
    /\ \A k \in LockWrites :
        /\ find_photos_in_path(dir).ok
        /\ sys[k].image = ImageUrl(find_photos_in_path(dir).value[1])
        /\ (~args.path.some /\ ~random) =>
              /\ sys[k].image = ImageUrl(photos[1])
              /\ assignments # <<>> => sys[k].image = ImageUrl(assignments[1].photo_path)

\* with random selection the lock screen got another photo than the desktop
C30_Witness ==
    /\ SetRun /\ pc = "locked" /\ ret = Returned(Ok("unit"))
    /\ ~args.path.some /\ random
    /\ assignments # <<>>
    /\ \E k \in LockWrites :
          /\ sys[k].ok
          /\ sys[k].image # ImageUrl(assignments[1].photo_path)

====
